---- MODULE Spec2Model ----
(***************************************************************************)
(* Model of the SHN Lite Canvas widget (src/main.js): the document-store   *)
(* value conversion, the marker chunking, the two extraction pipelines     *)
(* (runExtraction, batchExtract), the turn save of renderAppShell, the     *)
(* sessions panel and saveExtractedData.                                   *)
(*                                                                         *)
(* src/main.js holds two parts, each a function scope of its own.  The     *)
(* first part (the session-based save, the sessions panel, runExtraction)  *)
(* uses firebaseConfig, firestoreList, firestoreSet, firestoreGet,         *)
(* serverTimestamp and convertToFirestoreValue, which only the second part *)
(* defines: the model binds these names to the definitions of the second   *)
(* part, and the check of initFirebase() before a save or a listing to the *)
(* initFirebase that sets firebaseConfig.                                  *)
(*                                                                         *)
(* Native JavaScript values are tagged records:                            *)
(*   [t |-> "null"], [t |-> "undefined"], [t |-> "string", s |-> ..],      *)
(*   [t |-> "boolean", b |-> ..], [t |-> "array", a |-> <<..>>],           *)
(*   [t |-> "object", m |-> [key |-> value]], [t |-> "date", d |-> ..],    *)
(*   [t |-> "number", nan, neg, mant, exp]  (the number mant * 10^exp,     *)
(*   mant not divisible by 10 unless it is 0; integer iff exp >= 0).       *)
(* A string is a sequence of tokens (characters, or larger pieces of text  *)
(* that the code only ever treats as a whole).                             *)
(***************************************************************************)
EXTENDS Integers, Sequences, FiniteSets, TLC

VARIABLES
  cvPc,        \* conversion harness: "in" | "wire" | "out"
  cvValue,     \* the native value handed to convertToFirestoreValue
  cvWire,      \* its wire form
  cvBack,      \* convertFromFirestoreValue of the wire form
  chPc,        \* chunking harness: "in" | "out"
  chText,      \* the text handed to chunkByMarker
  chMarker,    \* its markerType
  chSize,      \* its chunkSize
  chOut,       \* the batches it returned
  userApiKey,  \* userApiSettings.apiPresets[0].apiKey ("" when absent)
  db,          \* the Firestore SDK instance is set (initFirebase of the SDK build succeeded)
  currentSessionId,  \* process-wide current session id (Null when unset)
  currentSubject,    \* process-wide current subject (Null when unset)
  clock,       \* Date.now() / the store's server time
  detail,      \* the session detail view: the session and the turns it loaded
  run,         \* the activations of runExtraction
  log,         \* per activation: the LLM calls, returns and pacing delays so far
  sdkDocs,     \* documents written through the Firestore SDK (sessions/{id}/extractions)
  llmKey,      \* getLLMConfig().apiKey of the REST build (<<>> when absent)
  be,          \* the activation of batchExtract
  beLog,       \* its LLM calls, returns and pacing delays so far
  localConfig, \* the firebase part of the configuration kept in localStorage (Null when absent)
  firebaseConfig,  \* the configuration initFirebase last read (Null before)
  fsDocs,      \* the documents of the store reached over REST
  nextId,      \* how many documents the store has created under an id of its own, plus one
  save,        \* the activations of saveCanvasToFirebase
  saves,       \* how many times renderAppShell has run
  sessionsCache,   \* the sessions loadSessionsList last loaded
  view,        \* the sessions panel: what it shows, and the request it waits for
  sx,          \* the activation of saveExtractedData
  hPc,         \* a function on its own: "in" | "out" | "again" ("off" when none is tried)
  hIn,         \* the arguments it is applied to
  hOut         \* what it returned

cvVars == <<cvPc, cvValue, cvWire, cvBack>>
chVars == <<chPc, chText, chMarker, chSize, chOut>>

jsVars == <<userApiKey, db, currentSessionId, currentSubject>>
runVars == <<detail, run, log, sdkDocs>>
beVars == <<llmKey, be, beLog>>
fsVars == <<localConfig, firebaseConfig, fsDocs, nextId, save, saves, sessionsCache, view, sx>>

hVars == <<hPc, hIn, hOut>>

vars == <<cvVars, chVars, jsVars, clock, runVars, beVars, fsVars, hVars>>

(***************************************************************************)
(* Bounds                                                                  *)
(***************************************************************************)
MaxArrayLen == 2
MaxTextLen == 4
MaxChunkSize == 3
MaxTurns == 3
MaxClock == 1
MaxSaves == 3
MaxSections == 3

\* the pacing delays, in milliseconds
RunDelayMs == 2000
BatchDelayMs == 500

SeqsUpTo(S, n) == UNION {[1..k -> S] : k \in 0..n}

(***************************************************************************)
(* JavaScript numbers and their decimal text                               *)
(***************************************************************************)
Num(neg, mant, exp) == [t |-> "number", nan |-> FALSE, neg |-> neg, mant |-> mant, exp |-> exp]
NaN == [t |-> "number", nan |-> TRUE, neg |-> FALSE, mant |-> 0, exp |-> 0]
Null == [t |-> "null"]
Undefined == [t |-> "undefined"]
Str(s) == [t |-> "string", s |-> s]
Bool(b) == [t |-> "boolean", b |-> b]
Arr(a) == [t |-> "array", a |-> a]
Obj(m) == [t |-> "object", m |-> m]
DateOf(d) == [t |-> "date", d |-> d]

DigitChars == <<"0", "1", "2", "3", "4", "5", "6", "7", "8", "9">>
DigitSet == {DigitChars[i] : i \in 1..10}
DigitVal(c) == (CHOOSE i \in 1..10 : DigitChars[i] = c) - 1

RECURSIVE Digits(_)
Digits(n) == IF n < 10 THEN <<DigitChars[n + 1]>>
             ELSE Append(Digits(n \div 10), DigitChars[(n % 10) + 1])

Zeros(k) == [i \in 1..k |-> "0"]

\* Number.isInteger
NumberIsInteger(v) == v.t = "number" /\ ~v.nan /\ (v.mant = 0 \/ v.exp >= 0)

\* String(value) for an integer-valued number (Number::toString, radix 10):
\* plain digits while the value is below 10^21, exponent notation from there on.
NumberToString(v) ==
  LET s == Digits(v.mant)
      k == Len(s)
      n == k + v.exp
      sign == IF v.neg /\ v.mant # 0 THEN <<"-">> ELSE <<>>
  IN IF v.mant = 0 THEN <<"0">>
     ELSE IF n <= 21 THEN sign \o s \o Zeros(v.exp)
     ELSE IF k = 1 THEN sign \o s \o <<"e", "+">> \o Digits(n - 1)
     ELSE sign \o <<s[1], ".">> \o SubSeq(s, 2, k) \o <<"e", "+">> \o Digits(n - 1)

WhiteChars == {" ", "\n"}

RECURSIVE SkipWhite(_)
SkipWhite(s) == IF s # <<>> /\ Head(s) \in WhiteChars THEN SkipWhite(Tail(s)) ELSE s

RECURSIVE DigitPrefix(_)
DigitPrefix(s) == IF s # <<>> /\ Head(s) \in DigitSet
                  THEN <<Head(s)>> \o DigitPrefix(Tail(s)) ELSE <<>>

RECURSIVE StripLeadingZeros(_)
StripLeadingZeros(s) == IF Len(s) > 1 /\ Head(s) = "0" THEN StripLeadingZeros(Tail(s)) ELSE s

RECURSIVE TrailingZeros(_)
TrailingZeros(s) == IF s # <<>> /\ s[Len(s)] = "0"
                    THEN 1 + TrailingZeros(SubSeq(s, 1, Len(s) - 1)) ELSE 0

RECURSIVE DigitsValue(_)
DigitsValue(s) == IF s = <<>> THEN 0
                  ELSE 10 * DigitsValue(SubSeq(s, 1, Len(s) - 1)) + DigitVal(s[Len(s)])

\* parseInt(string, 10): optional white space, optional sign, then the longest
\* run of decimal digits; NaN when there is none.  Anything after the digits
\* (".", "e", ...) is ignored.
parseInt(str) ==
  LET s0 == SkipWhite(str)
      neg == s0 # <<>> /\ Head(s0) = "-"
      s1 == IF s0 # <<>> /\ Head(s0) \in {"-", "+"} THEN Tail(s0) ELSE s0
      ds == StripLeadingZeros(DigitPrefix(s1))
      z == TrailingZeros(ds)
  IN IF ds = <<>> THEN NaN
     ELSE IF ds = <<"0">> THEN Num(neg, 0, 0)
     ELSE Num(neg, DigitsValue(SubSeq(ds, 1, Len(ds) - z)), z)

(***************************************************************************)
(* Document-store wire format (convertToFirestoreValue and back)           *)
(***************************************************************************)
\* JavaScript truthiness of a native value
Truthy(v) ==
  CASE v.t = "null" -> FALSE
    [] v.t = "undefined" -> FALSE
    [] v.t = "boolean" -> v.b
    [] v.t = "string" -> v.s # <<>>
    [] v.t = "number" -> ~v.nan /\ v.mant # 0
    [] OTHER -> TRUE

serverTimestamp == Obj([k \in {"_serverTimestamp"} |-> Bool(TRUE)])

RECURSIVE convertToFirestoreValue(_, _)
convertToFirestoreValue(value, now) ==
  CASE value.t \in {"null", "undefined"} -> [nullValue |-> "null"]
    [] value.t = "string" -> [stringValue |-> value.s]
    [] value.t = "number" ->
         IF NumberIsInteger(value) THEN [integerValue |-> NumberToString(value)]
         ELSE [doubleValue |-> value]
    [] value.t = "boolean" -> [booleanValue |-> value.b]
    [] value.t = "array" ->
         [arrayValue |-> [values |-> [i \in 1..Len(value.a) |->
                                        convertToFirestoreValue(value.a[i], now)]]]
    [] value.t = "date" -> [timestampValue |-> value.d]
    [] value.t = "object" ->
         IF "_serverTimestamp" \in DOMAIN value.m /\ Truthy(value.m["_serverTimestamp"])
         THEN [timestampValue |-> now]
         ELSE [mapValue |-> [fields |-> [k \in DOMAIN value.m |->
                                           convertToFirestoreValue(value.m[k], now)]]]

RECURSIVE convertFromFirestoreValue(_)
convertFromFirestoreValue(value) ==
  CASE "stringValue" \in DOMAIN value -> Str(value.stringValue)
    [] "integerValue" \in DOMAIN value -> parseInt(value.integerValue)
    [] "doubleValue" \in DOMAIN value -> value.doubleValue
    [] "booleanValue" \in DOMAIN value -> Bool(value.booleanValue)
    [] "nullValue" \in DOMAIN value -> Null
    [] "timestampValue" \in DOMAIN value -> DateOf(value.timestampValue)
    [] "arrayValue" \in DOMAIN value ->
         Arr([i \in 1..Len(value.arrayValue.values) |->
                convertFromFirestoreValue(value.arrayValue.values[i])])
    [] "mapValue" \in DOMAIN value ->
         Obj([k \in DOMAIN value.mapValue.fields |->
                convertFromFirestoreValue(value.mapValue.fields[k])])
    [] OTHER -> Null

(***************************************************************************)
(* Texts as token sequences.  A token stands for a piece of text:          *)
(*   "T1".."T5"  a turn heading "## [TURN N]" (TURN: the Korean word)     *)
(*   "H"         a heading that starts "## [TURN" but is no turn heading    *)
(*               (no number and bracket after it)                          *)
(*   "D", "E"     a day marker "[Day N]", an episode marker "[Episode N]"   *)
(*   " ", "\n"    white space;  "x", "y"  any other text                    *)
(***************************************************************************)
TurnMarkers == <<"T1", "T2", "T3", "T4", "T5">>
TurnMarkerSet == {TurnMarkers[i] : i \in 1..Len(TurnMarkers)}

\* the regular expression chunkByMarker picks for a markerType, as the set of
\* tokens it matches
MarkerRegex(markerType) ==
  CASE markerType = "day" -> {"D"}
    [] markerType = "episode" -> {"E"}
    [] OTHER -> TurnMarkerSet

\* String.prototype.trim() leaves something
RECURSIVE TrimLeft(_)
TrimLeft(s) == IF s # <<>> /\ Head(s) \in WhiteChars THEN TrimLeft(Tail(s)) ELSE s
RECURSIVE TrimRight(_)
TrimRight(s) == IF s # <<>> /\ s[Len(s)] \in WhiteChars
                THEN TrimRight(SubSeq(s, 1, Len(s) - 1)) ELSE s
Trim(s) == TrimRight(TrimLeft(s))

\* text.split(/(?=marker)/): the text is cut before every marker that is not at
\* the start of the text; the pieces are never empty (except for the empty text)
RECURSIVE SplitBefore(_, _, _)
SplitBefore(text, markers, cur) ==
  IF text = <<>> THEN <<cur>>
  ELSE IF Head(text) \in markers /\ cur # <<>>
       THEN <<cur>> \o SplitBefore(Tail(text), markers, <<Head(text)>>)
       ELSE SplitBefore(Tail(text), markers, Append(cur, Head(text)))
Split(text, markers) == SplitBefore(text, markers, <<>>)

\* a filter that keeps every piece, the blank ones too
KeepBlank(pieces) == pieces

RECURSIVE FilterNonBlank(_)
FilterNonBlank(pieces) ==
  IF pieces = <<>> THEN <<>>
  ELSE IF Trim(Head(pieces)) # <<>> THEN <<Head(pieces)>> \o FilterNonBlank(Tail(pieces))
       ELSE FilterNonBlank(Tail(pieces))

\* Array.prototype.join
RECURSIVE Join(_, _)
Join(pieces, sep) ==
  IF pieces = <<>> THEN <<>>
  ELSE IF Len(pieces) = 1 THEN pieces[1]
       ELSE pieces[1] \o sep \o Join(Tail(pieces), sep)

Min(a, b) == IF a < b THEN a ELSE b
Max(a, b) == IF a > b THEN a ELSE b

\* the grouping loop: from the 0-based index i on, size pieces at a time, each
\* group joined by a blank line
RECURSIVE GroupFrom(_, _, _)
GroupFrom(raw, i, size) ==
  IF i >= Len(raw) THEN <<>>
  ELSE <<Join(SubSeq(raw, i + 1, Min(i + size, Len(raw))), <<"\n", "\n">>)>>
         \o GroupFrom(raw, i + size, size)

\* a chunking that trims every piece it keeps
chunkTrimmed(text, markerType, chunkSize) ==
  LET rawChunks == FilterNonBlank(Split(text, MarkerRegex(markerType)))
  IN GroupFrom([i \in 1..Len(rawChunks) |-> Trim(rawChunks[i])], 0, chunkSize)

\* chunkByMarker: split, drop the blank pieces, group
chunkByMarker(text, markerType, chunkSize) ==
  LET rawChunks == FilterNonBlank(Split(text, MarkerRegex(markerType)))
  IN GroupFrom(rawChunks, 0, chunkSize)

(***************************************************************************)
(* Object helpers                                                          *)
(***************************************************************************)
\* o.k for a native object o (undefined when o has no such property)
Prop(o, k) == IF o.t = "object" /\ k \in DOMAIN o.m THEN o.m[k] ELSE Undefined
\* a || b
OrElse(a, b) == IF Truthy(a) THEN a ELSE b

RECURSIVE Pow10(_)
Pow10(e) == IF e <= 0 THEN 1 ELSE 10 * Pow10(e - 1)
\* the integer a number record stands for (integer-valued records only)
IntOf(v) == (IF v.neg THEN -1 ELSE 1) * v.mant * Pow10(v.exp)

(***************************************************************************)
(* Rendered markup.  The markup of a turn is a sequence of tokens:         *)
(*   "dt1", "dt2", "dt02", ..     the attribute data-turn="1", "2", "02"   *)
(*   "dsA", "dsB"                 the attribute data-subject="A" / "B"     *)
(*   "hdr"    a .header block with an h1 title                            *)
(*   "p"      a content section of type paragraph (one paragraph)          *)
(*   "h2"     a content section of type heading-h2                         *)
(*   "h2T"    a heading-h2 section whose heading text starts with "[TURN"   *)
(*   "sec"    a content section of an unrecognized type                    *)
(***************************************************************************)
DataTurnTokens == {"dt1", "dt2", "dt02", "dt3", "dt4", "dt5"}
DataTurnDigits(tok) ==
  CASE tok = "dt1" -> <<"1">>
    [] tok = "dt2" -> <<"2">>
    [] tok = "dt02" -> <<"0", "2">>
    [] tok = "dt3" -> <<"3">>
    [] tok = "dt4" -> <<"4">>
    [] tok = "dt5" -> <<"5">>
DataSubjectTokens == {"dsA", "dsB"}
DataSubjectText(tok) == IF tok = "dsA" THEN <<"A">> ELSE <<"B">>

\* content.match(regex): the first token of the markup that the regex matches
RECURSIVE FirstMatch(_, _)
FirstMatch(content, toks) ==
  IF content = <<>> THEN "none"
  ELSE IF Head(content) \in toks THEN Head(content)
       ELSE FirstMatch(Tail(content), toks)

\* `## [TURN ${turn}]`: the turn heading of a turn number
TurnHeading(turn) ==
  IF turn.t = "number" /\ NumberIsInteger(turn) /\ ~turn.neg
     /\ turn.exp = 0 /\ turn.mant \in 1..Len(TurnMarkers)
  THEN TurnMarkers[turn.mant] ELSE "H"

\* a conversion in which a section of an unknown type leaves a blank block
SectionBlockAny(tok) ==
  CASE tok = "p" -> <<"x", "\n", "\n">>
    [] tok = "bq" -> <<"q", "\n", "\n">>
    [] tok = "h2" -> <<"y", "\n", "\n">>
    [] tok = "h2T" -> <<"H", "\n", "\n">>
    [] tok = "dash" -> <<"s", "\n", "\n">>
    [] tok = "ol" -> <<"o", "\n", "\n">>
    [] tok = "sec" -> <<"\n", "\n">>
    [] OTHER -> <<>>

\* the block one content section contributes: a paragraph "p", a quote "bq",
\* a heading "h2" ("h2T": one that reads like a turn heading), a status
\* dashboard "dash", a list of choices "ol"; any other section ("sec") and
\* what is not a content section contribute nothing
SectionBlock(tok) ==
  CASE tok = "p" -> <<"x", "\n", "\n">>
    [] tok = "bq" -> <<"q", "\n", "\n">>
    [] tok = "h2" -> <<"y", "\n", "\n">>
    [] tok = "h2T" -> <<"H", "\n", "\n">>
    [] tok = "dash" -> <<"s", "\n", "\n">>
    [] tok = "ol" -> <<"o", "\n", "\n">>
    [] OTHER -> <<>>

RECURSIVE SectionBlocks(_)
SectionBlocks(html) ==
  IF html = <<>> THEN <<>> ELSE SectionBlock(Head(html)) \o SectionBlocks(Tail(html))

\* a converter that remembers the subject of the canvas saved last
convertAfterSubject(htmlContent, turn) ==
  <<"\n", "\n", TurnHeading(turn), "\n", "\n">>
    \o (IF FirstMatch(htmlContent, {"hdr"}) = "hdr" \/ currentSubject # Null
        THEN <<"t", "\n", "\n">> ELSE <<>>)
    \o SectionBlocks(htmlContent)

convertHtmlToMarkdown(htmlContent, turn) ==
  <<"\n", "\n", TurnHeading(turn), "\n", "\n">>
    \o (IF FirstMatch(htmlContent, {"hdr"}) = "hdr" THEN <<"t", "\n", "\n">> ELSE <<>>)
    \o SectionBlocks(htmlContent)

(***************************************************************************)
(* callLLM (Gemini): what it makes of a response                           *)
(*   a response is [kind |-> "ok", text |-> tokens], [kind |-> "http"]     *)
(*   (non-success status) or [kind |-> "shape"] (no candidate content);    *)
(*   in a response text "FENCE" is a code fence (three backquotes) and     *)
(*   "json" the language tag                                               *)
(***************************************************************************)
FencePositions(text) == {p \in 1..Len(text) : text[p] = "FENCE"}
\* a match that takes the last complete block of the text, not the first
CodeBlockLast(text) ==
  LET fs == FencePositions(text)
      close == CHOOSE p \in fs : \A q \in fs : q <= p
      open == CHOOSE p \in fs \ {close} : \A q \in fs \ {close} : q <= p
      body == SubSeq(text, open + 1, close - 1)
  IN IF Cardinality(fs) < 2 THEN [matched |-> FALSE, inner |-> <<>>]
     ELSE [matched |-> TRUE,
           inner |-> IF body # <<>> /\ Head(body) = "json" THEN Tail(body) ELSE body]


\* resultText.match(code block regex): the first fence that has a fence after
\* it, an optional language tag, and the text up to the next fence
CodeBlockMatch(text) ==
  LET fs == FencePositions(text)
      open == CHOOSE p \in fs : \A q \in fs : p <= q
      rest == SubSeq(text, open + 1, Len(text))
      body == IF rest # <<>> /\ Head(rest) = "json" THEN Tail(rest) ELSE rest
      close == CHOOSE p \in FencePositions(body) : \A q \in FencePositions(body) : p <= q
  IN IF Cardinality(fs) < 2 THEN [matched |-> FALSE, inner |-> <<>>]
     ELSE [matched |-> TRUE, inner |-> SubSeq(body, 1, close - 1)]

\* a key test that never finds the key missing
KeyNeverMissing(apiKey) == FALSE
\* !apiConfig.apiKey, !config.apiKey: no API key is configured
KeyMissing(apiKey) == apiKey = <<>>

\* the value callLLM returns for a response, or that it throws
callLLM(apiKey, resp) ==
  IF KeyMissing(apiKey) THEN [ok |-> FALSE, text |-> <<>>]
  ELSE IF resp.kind # "ok" THEN [ok |-> FALSE, text |-> <<>>]
  ELSE LET m == CodeBlockMatch(resp.text)
       IN [ok |-> TRUE, text |-> IF m.matched THEN Trim(m.inner) ELSE Trim(resp.text)]

(***************************************************************************)
(* runExtraction: the pure steps                                           *)
(***************************************************************************)
\* Math.max(1, Math.min(100, parseInt(chunkSizeStr, 10) || 10))
ChunkSizeOf(chunkSizeStr) ==
  LET n == parseInt(chunkSizeStr)
      m == IF Truthy(n) THEN IntOf(n) ELSE 10
  IN Max(1, Min(100, m))

\* step 1: every turn as Markdown, joined
TurnMarkdown(t) ==
  LET content == OrElse(Prop(t, "content"), OrElse(Prop(t, "narrative"), Str(<<>>))).s
      trimmed == Trim(content)
  IN IF trimmed # <<>> /\ Head(trimmed) \in (TurnMarkerSet \cup {"H"})
     THEN content
     ELSE <<TurnHeading(Prop(t, "turnNumber")), "\n", "\n">> \o content
AllMarkdown(turns) == Join([k \in 1..Len(turns) |-> TurnMarkdown(turns[k])], <<"\n", "\n">>)

\* steps 2 and 3: split before every "## [TURN", drop blank blocks, group
TurnBlocks(turns) == FilterNonBlank(Split(AllMarkdown(turns), TurnMarkerSet \cup {"H"}))
RunChunks(turns, chunkSize) == GroupFrom(TurnBlocks(turns), 0, chunkSize)

UserMessage(chunk) == <<"--- data start ---", "\n">> \o chunk \o <<"\n", "--- data end ---">>

\* a merge that joins every result, the blank ones too
FinalAll(results) == Join(results, <<",", "\n">>)

\* step 5: the non-blank results joined by a comma and a line break
FinalResult(results) == Join(FilterNonBlank(results), <<",", "\n">>)

(***************************************************************************)
(* The document store (Firestore REST).  A stored document is              *)
(*   [col |-> collection path, id |-> document id, fields |-> wire fields] *)
(* with the path a tuple of its segments and the id a string.              *)
(***************************************************************************)
\* the wire fields of a native object (firestoreSet, convertToFirestoreFields)
convertToFirestoreFields(data, now) ==
  [k \in DOMAIN data.m |-> convertToFirestoreValue(data.m[k], now)]

convertFromFirestoreDoc(doc) ==
  IF DOMAIN doc.fields = {} THEN Null
  ELSE Obj([k \in DOMAIN doc.fields \cup {"_id"} |->
              IF k = "_id" THEN Str(doc.id) ELSE convertFromFirestoreValue(doc.fields[k])])

\* a write that adds a document next to the one of the same name
UpsertAdd(docs, col, id, fields) == docs \cup {[col |-> col, id |-> id, fields |-> fields]}

\* PATCH of a document without an update mask: the document is created, or
\* its fields are replaced by the fields sent
Upsert(docs, col, id, fields) ==
  {d \in docs : ~(d.col = col /\ d.id = id)} \cup {[col |-> col, id |-> id, fields |-> fields]}

\* the turn number, the subject and the turn document of a rendered markup
\* (saveCanvasToFirebase)
TurnOf(content) ==
  LET m == FirstMatch(content, DataTurnTokens)
  IN IF m # "none" THEN parseInt(DataTurnDigits(m)) ELSE Num(FALSE, 1, 0)
SubjectOf(content) ==
  LET m == FirstMatch(content, DataSubjectTokens)
  IN IF m # "none" THEN DataSubjectText(m) ELSE <<"General">>
TurnData(content, title) ==
  Obj([k \in {"turnNumber", "content", "rawHtml", "title", "timestamp"} |->
         CASE k = "turnNumber" -> TurnOf(content)
           [] k = "content" -> Str(convertHtmlToMarkdown(content, TurnOf(content)))
           [] k = "rawHtml" -> Str(content)
           [] k = "title" -> Str(title)
           [] k = "timestamp" -> serverTimestamp])
TurnDocId(turn) == <<"turn_">> \o NumberToString(turn)
TurnsCol(sid) == <<"shn-sessions">> \o sid \o <<"turns">>

\* the sessions document a save creates for a subject
SessionData(subject) ==
  Obj([k \in {"subject", "title", "createdAt", "updatedAt", "turnCount"} |->
         CASE k = "subject" -> Str(subject)
           [] k = "title" -> Str(<<"[">> \o subject \o <<"]", " record">>)
           [] k = "createdAt" -> serverTimestamp
           [] k = "updatedAt" -> serverTimestamp
           [] k = "turnCount" -> Num(FALSE, 0, 0)])

(***************************************************************************)
(* callLLM of the REST build (JSON output): what it makes of a response;   *)
(* a response text with the token "bad" is not valid JSON                  *)
(***************************************************************************)
callLLMJson(apiKey, resp) ==
  IF KeyMissing(apiKey) THEN [ok |-> FALSE, data |-> <<>>]
  ELSE IF resp.kind = "http" THEN [ok |-> FALSE, data |-> <<>>]
  ELSE LET text == IF resp.kind = "shape" \/ resp.text = <<>> THEN <<"{}">> ELSE resp.text
       IN IF \E p \in 1..Len(text) : text[p] = "bad"
          THEN [ok |-> FALSE, data |-> <<>>]
          ELSE [ok |-> TRUE, data |-> text]

(***************************************************************************)
(* The store's side of the REST requests, and what the client makes of     *)
(* the responses                                                           *)
(***************************************************************************)
\* the ids the store gives to the documents it creates, in name order
AutoIds == <<"n1", "n2", "n3", "n4", "n5">>
AutoId(n) == <<AutoIds[n]>>
IdRank(id) ==
  IF \E k \in 1..Len(AutoIds) : id = AutoId(k)
  THEN CHOOSE k \in 1..Len(AutoIds) : id = AutoId(k)
  ELSE 0

\* the place of a document in a listing: by the value of the orderBy field
\* when one is given, by document name otherwise
DocRank(d, orderByField) ==
  IF orderByField = "" THEN IdRank(d.id)
  ELSE IntOf(convertFromFirestoreValue(d.fields[orderByField]))
RECURSIVE SortDocs(_, _)
SortDocs(ds, orderByField) ==
  IF ds = {} THEN <<>>
  ELSE LET first == CHOOSE d \in ds : \A e \in ds : DocRank(d, orderByField) <= DocRank(e, orderByField)
       IN <<first>> \o SortDocs(ds \ {first}, orderByField)
\* the documents of a collection as the store lists them (a document without
\* the orderBy field is not listed)
ListDocs(docs, col, orderByField, limitCount) ==
  LET ds == {d \in docs : d.col = col /\ (orderByField = "" \/ orderByField \in DOMAIN d.fields)}
      sorted == SortDocs(ds, orderByField)
  IN SubSeq(sorted, 1, Min(Len(sorted), limitCount))
\* firestoreList: the listed documents as native objects
firestoreList(docs, collectionPath, orderByField, limitCount) ==
  LET listed == ListDocs(docs, collectionPath, orderByField, limitCount)
  IN [k \in 1..Len(listed) |-> convertFromFirestoreDoc(listed[k])]
\* firestoreGet: the document as a native object, null when there is none
firestoreGet(docs, collectionPath, docId) ==
  IF \E d \in docs : d.col = collectionPath /\ d.id = docId
  THEN convertFromFirestoreDoc(CHOOSE d \in docs : d.col = collectionPath /\ d.id = docId)
  ELSE Null

\* the response of the store to the GET of firestoreGet: 404 when the
\* document does not exist, another failure status when the request is
\* refused (fault), 200 with the document otherwise
GetFaults == {"none", "denied"}
GetResponse(docs, collectionPath, docId, fault) ==
  IF fault # "none" THEN [status |-> 403, ok |-> FALSE, doc |-> Null]
  ELSE IF \E d \in docs : d.col = collectionPath /\ d.id = docId
  THEN [status |-> 200, ok |-> TRUE,
        doc |-> CHOOSE d \in docs : d.col = collectionPath /\ d.id = docId]
  ELSE [status |-> 404, ok |-> FALSE, doc |-> Null]

\* a variant of firestoreGetResult that treats every failure status alike
firestoreGetStrict(response) ==
  IF ~response.ok THEN [threw |-> TRUE, value |-> Undefined]
  ELSE [threw |-> FALSE, value |-> convertFromFirestoreDoc(response.doc)]

\* firestoreGet from the response on: what it returns and whether it throws
firestoreGetResult(response) ==
  IF response.status = 404 THEN [threw |-> FALSE, value |-> Null]
  ELSE IF ~response.ok THEN [threw |-> TRUE, value |-> Undefined]
  ELSE [threw |-> FALSE, value |-> convertFromFirestoreDoc(response.doc)]

\* getFirebaseConfig and the check of initFirebase
Config(apiKey, projectId) == [apiKey |-> apiKey, projectId |-> projectId]
getFirebaseConfig(stored) == stored
\* a check that is content with any stored configuration
ConfigPresent(config) == config # Null

ConfigComplete(config) == config # Null /\ config.apiKey # <<>> /\ config.projectId # <<>>
\* getFirestoreUrl gives a URL
HasUrl(config) == config # Null /\ config.projectId # <<>>

\* Array.prototype.find over the listed sessions: the first with the subject
RECURSIVE Find(_, _)
Find(sessions, subject) ==
  IF sessions = <<>> THEN Undefined
  ELSE IF Prop(Head(sessions), "subject") = Str(subject) THEN Head(sessions)
       ELSE Find(Tail(sessions), subject)

\* the requests of a turn save
TurnRequest(sid, content, title, now) ==
  [col |-> TurnsCol(sid), id |-> TurnDocId(TurnOf(content)),
   fields |-> convertToFirestoreFields(TurnData(content, title), now)]
SessionCreateRequest(subject, now) ==
  [col |-> <<"shn-sessions">>, id |-> <<>>,
   fields |-> convertToFirestoreFields(SessionData(subject), now)]
SessionUpdateData(turn, title) ==
  Obj([k \in {"updatedAt", "turnCount", "lastTurnTitle"} |->
         CASE k = "updatedAt" -> serverTimestamp
           [] k = "turnCount" -> turn
           [] k = "lastTurnTitle" -> Str(title)])
SessionUpdateRequest(sid, content, title, now) ==
  [col |-> <<"shn-sessions">>, id |-> sid,
   fields |-> convertToFirestoreFields(SessionUpdateData(TurnOf(content), title), now)]

\* the sort of loadSessionsList: newest update first, by toMillis() of
\* updatedAt where it has such a method and 0 otherwise; the method is that
\* of the store kit's timestamp, [t |-> "timestamp", ms |-> n], and a Date,
\* which is what convertFromFirestoreValue builds, has none
UpdatedMillis(session) ==
  LET u == Prop(session, "updatedAt")
  IN IF u.t = "timestamp" THEN u.ms ELSE 0
RECURSIVE InsertByUpdate(_, _)
InsertByUpdate(sorted, session) ==
  IF sorted = <<>> THEN <<session>>
  ELSE IF UpdatedMillis(Head(sorted)) >= UpdatedMillis(session)
       THEN <<Head(sorted)>> \o InsertByUpdate(Tail(sorted), session)
       ELSE <<session>> \o sorted
RECURSIVE SortSessions(_)
SortSessions(sessions) ==
  IF sessions = <<>> THEN <<>>
  ELSE InsertByUpdate(SortSessions(SubSeq(sessions, 1, Len(sessions) - 1)),
                      sessions[Len(sessions)])

\* the turns of a session as showSessionDetail loads them
PageSize == 100
SessionTurns(docs, session) ==
  firestoreList(docs, TurnsCol(Prop(session, "_id").s), "turnNumber", PageSize)

\* the request of saveExtractedData
ExtractionKey(sessionId, extractionType) == sessionId \o <<"_">> \o extractionType
ExtractedData(sessionId, extractedData, extractionType) ==
  Obj([k \in {"sessionId", "extractionType", "data", "extractedAt"} |->
         CASE k = "sessionId" -> Str(sessionId)
           [] k = "extractionType" -> Str(extractionType)
           [] k = "data" -> Str(extractedData)
           [] k = "extractedAt" -> serverTimestamp])
ExtractionRequest(sessionId, extractedData, extractionType, now) ==
  [col |-> <<"extractions">>, id |-> ExtractionKey(sessionId, extractionType),
   fields |-> convertToFirestoreFields(ExtractedData(sessionId, extractedData, extractionType), now)]

(***************************************************************************)
(* The harnesses that are not running                                      *)
(***************************************************************************)
CvIdle ==
  /\ cvPc = "off"
  /\ cvValue = Null
  /\ cvWire = [nullValue |-> "null"]
  /\ cvBack = Null

ChIdle ==
  /\ chPc = "off"
  /\ chText = <<>>
  /\ chMarker = "turn"
  /\ chSize = 1
  /\ chOut = <<>>

RunIds == {"r1", "r2"}

NoTarget == [sid |-> Null, id |-> 0]
RunFresh == [pc |-> "idle", session |-> Null, turns |-> <<>>, chunkSize |-> 0,
             chunks |-> <<>>, i |-> 0, results |-> <<>>, finalResult |-> <<>>,
             status |-> "", offered |-> FALSE, downloaded |-> FALSE, target |-> NoTarget,
             stored |-> <<>>, key |-> <<>>]
\* (stored: the turns the store holds for the session at the click, kept for the
\* record; key: the API key the LLM call in flight was issued with)
RunEnded(r) == run[r].pc \in {"idle", "nokey", "cancelled", "done", "failed"}

BeFresh == [pc |-> "idle", chunks |-> <<>>, level |-> "micro", marker |-> "turn",
            i |-> 0, results |-> <<>>, progress |-> <<0, 0>>, notify |-> FALSE]

JsIdle ==
  /\ userApiKey = <<>>
  /\ db = FALSE
  /\ currentSessionId = Null
  /\ currentSubject = Null

RunIdle ==
  /\ detail = [open |-> FALSE, session |-> Null, turns |-> <<>>]
  /\ run = [r \in RunIds |-> RunFresh]
  /\ log = [r \in RunIds |-> <<>>]
  /\ sdkDocs = {}

BeIdle ==
  /\ llmKey = <<>>
  /\ be = BeFresh
  /\ beLog = <<>>

SaveIds == {"s1", "s2"}
NoReq == [col |-> <<>>, id |-> <<>>, fields |-> [none |-> [nullValue |-> "null"]]]
\* an activation of saveCanvasToFirebase; before, failed and sent are history:
\* the process-wide state at the call, whether the catch block ran, and the
\* requests the activation has issued so far
NoBefore == [sid |-> Null, subject |-> Null, cache |-> <<>>]
SaveFresh == [pc |-> "idle", content |-> <<>>, title |-> <<>>, req |-> NoReq, replaced |-> FALSE,
              before |-> NoBefore, failed |-> FALSE, sent |-> <<>>]
ViewNone == [pc |-> "none", session |-> Null]
SxFresh == [pc |-> "idle", req |-> NoReq]

HIdle ==
  /\ hPc = "off"
  /\ hIn = <<>>
  /\ hOut = <<>>

FsIdle ==
  /\ localConfig = Null
  /\ firebaseConfig = Null
  /\ fsDocs = {}
  /\ nextId = 1
  /\ save = [p \in SaveIds |-> SaveFresh]
  /\ saves = 0
  /\ sessionsCache = <<>>
  /\ view = ViewNone
  /\ sx = SxFresh

(***************************************************************************)
(* Conversion harness: a native value is written to the wire format and    *)
(* read back.                                                              *)
(***************************************************************************)
NativeStrings == {<<>>, <<"a">>}
\* 0, 7, -7, 120, 1.5, -0.25, 3 * 10^20 (below the exponent threshold),
\* 10^21 and 12 * 10^20 (at and above it)
NativeIntegers == {Num(FALSE, 0, 0), Num(FALSE, 7, 0), Num(TRUE, 7, 0), Num(FALSE, 12, 1),
                   Num(FALSE, 3, 20), Num(FALSE, 1, 21), Num(FALSE, 12, 20)}
NativeDoubles == {Num(FALSE, 15, -1), Num(TRUE, 25, -2)}
NativeScalars == {Str(s) : s \in NativeStrings} \cup NativeIntegers \cup NativeDoubles
                   \cup {Bool(TRUE), Bool(FALSE), Null}
NativeArrays == {Arr(a) : a \in SeqsUpTo(NativeScalars, MaxArrayLen)}
MapKeys == {"a", "b"}
MapsOver(S) == UNION {{Obj(m) : m \in [D -> S]} : D \in SUBSET MapKeys}
NativeMaps1 == MapsOver(NativeScalars)
NativeValues == NativeScalars \cup NativeArrays \cup NativeMaps1
                  \cup MapsOver({Null, Num(FALSE, 7, 0), Num(FALSE, 1, 21), Arr(<<Str(<<"a">>)>>),
                                 Obj([k \in {"a"} |-> Num(FALSE, 15, -1)])})
                  \cup {Arr(<<m>>) : m \in NativeMaps1}

CvInit ==
  /\ HIdle
  /\ FsIdle
  /\ ChIdle
  /\ JsIdle
  /\ RunIdle
  /\ BeIdle
  /\ clock = 0
  /\ cvPc = "in"
  /\ cvValue \in NativeValues
  /\ cvWire = [nullValue |-> "null"]
  /\ cvBack = Null

CvToWire ==
  /\ cvPc = "in"
  /\ cvWire' = convertToFirestoreValue(cvValue, 0)
  /\ cvPc' = "wire"
  /\ UNCHANGED <<cvValue, cvBack, chVars, jsVars, clock, runVars, beVars, fsVars, hVars>>

CvFromWire ==
  /\ cvPc = "wire"
  /\ cvBack' = convertFromFirestoreValue(cvWire)
  /\ cvPc' = "out"
  /\ UNCHANGED <<cvValue, cvWire, chVars, jsVars, clock, runVars, beVars, fsVars, hVars>>

CvNext == CvToWire \/ CvFromWire

SpecConv == CvInit /\ [][CvNext]_vars

(***************************************************************************)
(* Chunking harness: chunkByMarker applied to a text                       *)
(***************************************************************************)
ChunkAlphabet == {"T1", "D", " ", "x"}
ChunkMarkerTypes == {"turn", "day", "episode"}

ChInit ==
  /\ HIdle
  /\ FsIdle
  /\ CvIdle
  /\ JsIdle
  /\ RunIdle
  /\ BeIdle
  /\ clock = 0
  /\ chPc = "in"
  /\ chText \in SeqsUpTo(ChunkAlphabet, MaxTextLen)
  /\ chMarker \in ChunkMarkerTypes
  /\ chSize \in 1..MaxChunkSize
  /\ chOut = <<>>

ChChunk ==
  /\ chPc = "in"
  /\ chOut' = chunkByMarker(chText, chMarker, chSize)
  /\ chPc' = "out"
  /\ UNCHANGED <<chText, chMarker, chSize, cvVars, jsVars, clock, runVars, beVars, fsVars, hVars>>

ChNext == ChChunk

SpecChunk == ChInit /\ [][ChNext]_vars

(***************************************************************************)
(* Time                                                                    *)
(***************************************************************************)
Tick ==
  /\ clock < MaxClock
  /\ clock' = clock + 1
  /\ UNCHANGED <<cvVars, chVars, jsVars, runVars, beVars, fsVars, hVars>>

(***************************************************************************)
(* runExtraction(session, turns): the click on the extraction button of    *)
(* the session detail view, and the continuations of its awaits            *)
(***************************************************************************)
LLMTexts == {<<"j1">>, <<"FENCE", "json", "j2", "\n", "FENCE">>, <<" ">>}
LLMResponses == {[kind |-> "ok", text |-> t] : t \in LLMTexts}
                  \cup {[kind |-> "http", text |-> <<>>], [kind |-> "shape", text |-> <<>>]}
\* what the user types into the prompt (Null: the prompt is cancelled)
PromptAnswers == {Null, Str(<<>>), Str(<<"1">>), Str(<<"2">>), Str(<<"0">>),
                  Str(<<"a">>), Str(<<"2", "0", "0">>)}

CallEvent(i, msg) == [e |-> "call", i |-> i, msg |-> msg, ok |-> TRUE, ms |-> 0]
RetEvent(i, ok) == [e |-> "ret", i |-> i, msg |-> <<>>, ok |-> ok, ms |-> 0]
DelayEvent(i, ms) == [e |-> "delay", i |-> i, msg |-> <<>>, ok |-> TRUE, ms |-> ms]

\* a run that goes on to offer the download after a failure
RunFailedOffer(me) == [me EXCEPT !.pc = "done", !.status = "complete", !.offered = TRUE]

\* the catch block of runExtraction: the run ends, the error is shown
RunFailed(me) == [me EXCEPT !.pc = "failed", !.status = "error"]
\* whether the loop goes on to a pacing delay after batch i (0-based)
RunMore(i, chunks) == i < Len(chunks) - 1

\* the click: from the key check up to the first await (the first LLM call)
RunStart(r, answer) ==
  /\ detail.open
  /\ RunEnded(r)
  /\ LET fresh == [RunFresh EXCEPT !.session = detail.session, !.turns = detail.turns,
                                  !.stored = SessionTurns(fsDocs, detail.session)]
         chunkSize == ChunkSizeOf(answer.s)
         chunks == RunChunks(detail.turns, chunkSize)
     IN IF KeyMissing(userApiKey)
        THEN /\ run' = [run EXCEPT ![r] = [fresh EXCEPT !.pc = "nokey"]]
             /\ log' = [log EXCEPT ![r] = <<>>]
        ELSE IF ~Truthy(answer)
        THEN /\ run' = [run EXCEPT ![r] = [fresh EXCEPT !.pc = "cancelled"]]
             /\ log' = [log EXCEPT ![r] = <<>>]
        ELSE IF Len(chunks) = 0
        THEN /\ run' = [run EXCEPT ![r] = RunFailed([fresh EXCEPT !.chunkSize = chunkSize])]
             /\ log' = [log EXCEPT ![r] = <<>>]
        ELSE /\ run' = [run EXCEPT ![r] = [fresh EXCEPT !.pc = "call", !.status = "refining",
                                                        !.chunkSize = chunkSize,
                                                        !.chunks = chunks, !.i = 0,
                                                        !.key = userApiKey]]
             /\ log' = [log EXCEPT ![r] = <<CallEvent(1, UserMessage(chunks[1]))>>]
  /\ UNCHANGED <<cvVars, chVars, jsVars, clock, detail, sdkDocs, beVars, fsVars, hVars>>

\* the LLM call of batch i returns (or fails): the loop body after the await,
\* and after the last batch steps 5 to 8 up to the next await
RunLLMReturn(r, resp, download) ==
  /\ run[r].pc = "call"
  /\ LET me == run[r]
         res == callLLM(me.key, resp)
         results == Append(me.results, res.text)
         last == ~RunMore(me.i, me.chunks)
         final == FinalResult(results)
     IN IF ~res.ok
        THEN /\ run' = [run EXCEPT ![r] = RunFailed(me)]
             /\ log' = [log EXCEPT ![r] = Append(@, RetEvent(me.i + 1, FALSE))]
        ELSE IF ~last
        THEN /\ run' = [run EXCEPT ![r] = [me EXCEPT !.pc = "delay", !.results = results]]
             /\ log' = [log EXCEPT ![r] = @ \o <<RetEvent(me.i + 1, TRUE),
                                                   DelayEvent(me.i + 1, RunDelayMs)>>]
        ELSE IF db /\ Truthy(currentSessionId)
        THEN /\ run' = [run EXCEPT ![r] = [me EXCEPT !.pc = "persist", !.results = results,
                                                     !.finalResult = final,
                                                     !.status = "complete",
                                                     !.target = [sid |-> currentSessionId,
                                                                 id |-> clock]]]
             /\ log' = [log EXCEPT ![r] = Append(@, RetEvent(me.i + 1, TRUE))]
        ELSE /\ run' = [run EXCEPT ![r] = [me EXCEPT !.pc = "done", !.results = results,
                                                     !.finalResult = final,
                                                     !.status = "complete",
                                                     !.offered = TRUE,
                                                     !.downloaded = download]]
             /\ log' = [log EXCEPT ![r] = Append(@, RetEvent(me.i + 1, TRUE))]
  /\ UNCHANGED <<cvVars, chVars, jsVars, clock, detail, sdkDocs, beVars, fsVars, hVars>>

\* a pacing delay whose timer never resumes the loop
RunDelayStuck(r) ==
  /\ run[r].pc = "delay"
  /\ UNCHANGED vars


\* the pacing delay is over: the next turn of the loop, up to its LLM call
RunDelayDone(r) ==
  /\ run[r].pc = "delay"
  /\ IF KeyMissing(userApiKey)
     THEN /\ run' = [run EXCEPT ![r] = RunFailed([run[r] EXCEPT !.i = @ + 1])]
          /\ log' = log
     ELSE /\ run' = [run EXCEPT ![r].pc = "call", ![r].i = @ + 1, ![r].key = userApiKey]
          /\ log' = [log EXCEPT ![r] = Append(@, CallEvent(run[r].i + 2,
                                                           UserMessage(run[r].chunks[run[r].i + 2])))]
  /\ UNCHANGED <<cvVars, chVars, jsVars, clock, detail, sdkDocs, beVars, fsVars, hVars>>

\* extractionRef.set(..) settles: the result is stored (or the save fails),
\* then the download is offered
ExtractionDoc(me, now) ==
  [sid |-> me.target.sid, id |-> me.target.id, chunkSize |-> me.chunkSize,
   totalChunks |-> Len(me.chunks), result |-> me.finalResult, createdAt |-> now]
RunPersistReturn(r, ok, download) ==
  /\ run[r].pc = "persist"
  /\ LET me == run[r]
     IN /\ sdkDocs' = IF ok
                      THEN {d \in sdkDocs : ~(d.sid = me.target.sid /\ d.id = me.target.id)}
                             \cup {ExtractionDoc(me, clock)}
                      ELSE sdkDocs
        /\ run' = [run EXCEPT ![r] = [me EXCEPT !.pc = "done",
                                                !.status = IF ok THEN "saved" ELSE "saveFailed",
                                                !.offered = TRUE,
                                                !.downloaded = download]]
  /\ UNCHANGED <<cvVars, chVars, jsVars, clock, detail, log, beVars, fsVars, hVars>>

(***************************************************************************)
(* batchExtract(fullText, markerType, extractionLevel, onProgress)         *)
(***************************************************************************)
BatchTexts == SeqsUpTo({"T1", "D", "x"}, MaxTurns)
ExtractionLevels == {"micro", "meso", "macro"}

BatchStart(fullText, markerType, level, notify) ==
  /\ be.pc = "idle"
  /\ LET chunks == chunkByMarker(fullText, markerType, 1)
         fresh == [BeFresh EXCEPT !.chunks = chunks, !.level = level,
                                  !.marker = markerType, !.notify = notify]
     IN IF Len(chunks) = 0
        THEN /\ be' = [fresh EXCEPT !.pc = "done"]
             /\ beLog' = <<>>
        ELSE /\ be' = [fresh EXCEPT !.pc = "call"]
             /\ beLog' = <<CallEvent(1, chunks[1])>>
  /\ UNCHANGED <<cvVars, chVars, jsVars, clock, runVars, llmKey, fsVars, hVars>>

\* an entry that reports success whatever the call did, a loop that stops after one chunk
BatchEntryOk(i, res) == [index |-> i, success |-> TRUE, data |-> res.data]
BatchMoreNever(i, chunks) == FALSE

\* the entry of chunk i (0-based) and whether the loop goes on after it
BatchEntry(i, res) == [index |-> i, success |-> res.ok, data |-> res.data]
BatchMore(i, chunks) == i < Len(chunks) - 1

\* the call for chunk i settles: its entry is recorded either way
BatchReturn(resp) ==
  /\ be.pc = "call"
  /\ LET res == callLLMJson(llmKey, resp)
         entry == BatchEntry(be.i, res)
         more == BatchMore(be.i, be.chunks)
     IN /\ be' = [be EXCEPT !.results = Append(@, entry),
                            !.progress = IF be.notify THEN <<be.i + 1, Len(be.chunks)>> ELSE @,
                            !.pc = IF more THEN "delay" ELSE "done"]
        /\ beLog' = IF more
                    THEN beLog \o <<RetEvent(be.i + 1, res.ok), DelayEvent(be.i + 1, BatchDelayMs)>>
                    ELSE Append(beLog, RetEvent(be.i + 1, res.ok))
  /\ UNCHANGED <<cvVars, chVars, jsVars, clock, runVars, llmKey, fsVars, hVars>>

BatchDelayDone ==
  /\ be.pc = "delay"
  /\ be' = [be EXCEPT !.pc = "call", !.i = @ + 1]
  /\ beLog' = Append(beLog, CallEvent(be.i + 2, be.chunks[be.i + 2]))
  /\ UNCHANGED <<cvVars, chVars, jsVars, clock, runVars, llmKey, fsVars, hVars>>

(***************************************************************************)
(* renderAppShell and saveCanvasToFirebase.  Every await of a request is a *)
(* step of its own: the store acts on the request and the code after the   *)
(* await runs up to the next request.  A request is kept as it was issued.  *)
(***************************************************************************)
SaveOthers == <<cvVars, chVars, userApiKey, db, clock, runVars, beVars, localConfig,
                sessionsCache, view, sx, hVars>>

\* the turn write of an activation, issued under the current session id
IssueTurn(me, sid) ==
  [me EXCEPT !.pc = "turn", !.req = TurnRequest(sid.s, me.content, me.title, clock),
             !.sent = Append(@, "turn")]
\* a catch block that issues the failed request once more
SaveRetry(me) == [me EXCEPT !.sent = Append(@, @[Len(@)])]
\* the catch block: the failure is logged
SaveFailed(me) == [me EXCEPT !.pc = "done", !.failed = TRUE]

\* a canvas is rendered: the save starts when initFirebase() finds a
\* complete configuration, and runs up to its first request
Render(p, content, title) ==
  /\ saves < MaxSaves
  /\ save[p].pc \in {"idle", "done"}
  /\ saves' = saves + 1
  /\ firebaseConfig' = getFirebaseConfig(localConfig)
  /\ LET me == [SaveFresh EXCEPT !.content = content, !.title = title,
                                  !.before = [sid |-> currentSessionId,
                                              subject |-> currentSubject,
                                              cache |-> sessionsCache]]
     IN IF ~ConfigComplete(firebaseConfig')
        THEN save' = save
        ELSE IF ~Truthy(currentSessionId) \/ currentSubject # Str(SubjectOf(content))
        THEN save' = [save EXCEPT ![p] = [me EXCEPT !.pc = "list", !.sent = <<"list">>]]
        ELSE save' = [save EXCEPT ![p] = IssueTurn(me, currentSessionId)]
  /\ UNCHANGED <<SaveOthers, currentSessionId, currentSubject, fsDocs, nextId>>

\* firestoreList('shn-sessions') answers: the session of the subject is
\* taken when there is one, otherwise a new session is requested
SaveListReturn(p, ok) ==
  /\ save[p].pc = "list"
  /\ LET me == save[p]
         subject == SubjectOf(me.content)
         existingSessions == firestoreList(fsDocs, <<"shn-sessions">>, "", Len(AutoIds))
         matchingSession == Find(existingSessions, subject)
     IN IF ~ok
        THEN /\ save' = [save EXCEPT ![p] = SaveFailed(me)]
             /\ UNCHANGED <<currentSessionId, currentSubject>>
        ELSE IF Truthy(matchingSession)
        THEN /\ currentSessionId' = Prop(matchingSession, "_id")
             /\ currentSubject' = Str(subject)
             /\ save' = [save EXCEPT ![p] = IssueTurn(me, currentSessionId')]
        ELSE /\ save' = [save EXCEPT ![p] = [me EXCEPT !.pc = "post",
                                                       !.req = SessionCreateRequest(subject, clock),
                                                       !.sent = Append(@, "post")]]
             /\ UNCHANGED <<currentSessionId, currentSubject>>
  /\ UNCHANGED <<SaveOthers, firebaseConfig, fsDocs, nextId, saves>>

\* the POST of the new session answers: the store has created the document
\* under an id of its own
SavePostReturn(p, ok) ==
  /\ save[p].pc = "post"
  /\ LET me == save[p]
         id == AutoId(nextId)
     IN IF ~ok
        THEN /\ save' = [save EXCEPT ![p] = SaveFailed(me)]
             /\ UNCHANGED <<currentSessionId, currentSubject, fsDocs, nextId>>
        ELSE /\ fsDocs' = fsDocs \cup {[me.req EXCEPT !.id = id]}
             /\ nextId' = nextId + 1
             /\ currentSessionId' = Str(id)
             /\ currentSubject' = Str(SubjectOf(me.content))
             /\ save' = [save EXCEPT ![p] = IssueTurn(me, currentSessionId')]
  /\ UNCHANGED <<SaveOthers, firebaseConfig, saves>>

\* a turn write after whose failure the save goes on to the session update
SaveTurnAnyway(p, ok) ==
  /\ save[p].pc = "turn"
  /\ LET me == save[p]
     IN /\ fsDocs' = IF ok THEN Upsert(fsDocs, me.req.col, me.req.id, me.req.fields) ELSE fsDocs
        /\ save' = [save EXCEPT ![p] =
                      [me EXCEPT !.pc = "sess",
                                 !.req = SessionUpdateRequest(currentSessionId.s, me.content,
                                                              me.title, clock),
                                 !.sent = Append(@, "sess")]]
  /\ UNCHANGED <<SaveOthers, firebaseConfig, currentSessionId, currentSubject, nextId, saves>>


\* the turn write answers: the session update is issued under the session
\* id that is current now
SaveTurnReturn(p, ok) ==
  /\ save[p].pc = "turn"
  /\ LET me == save[p]
     IN IF ~ok
        THEN /\ save' = [save EXCEPT ![p] = SaveFailed(me)]
             /\ fsDocs' = fsDocs
        ELSE /\ fsDocs' = Upsert(fsDocs, me.req.col, me.req.id, me.req.fields)
             /\ save' = [save EXCEPT ![p] =
                           [me EXCEPT !.pc = "sess",
                                      !.replaced = \E d \in fsDocs : d.col = me.req.col /\ d.id = me.req.id,
                                      !.req = SessionUpdateRequest(currentSessionId.s, me.content,
                                                                   me.title, clock),
                                      !.sent = Append(@, "sess")]]
  /\ UNCHANGED <<SaveOthers, firebaseConfig, currentSessionId, currentSubject, nextId, saves>>

\* the session update answers
SaveSessReturn(p, ok) ==
  /\ save[p].pc = "sess"
  /\ fsDocs' = IF ok THEN Upsert(fsDocs, save[p].req.col, save[p].req.id, save[p].req.fields)
               ELSE fsDocs
  /\ save' = [save EXCEPT ![p] = IF ok THEN [@ EXCEPT !.pc = "done"] ELSE SaveFailed(@)]
  /\ UNCHANGED <<SaveOthers, firebaseConfig, currentSessionId, currentSubject, nextId, saves>>

(***************************************************************************)
(* The sessions panel: loadSessionsList and showSessionDetail              *)
(***************************************************************************)
PanelOthers == <<cvVars, chVars, jsVars, clock, run, log, sdkDocs, beVars, localConfig,
                 fsDocs, nextId, save, saves, sx, hVars>>
DetailClosed == [open |-> FALSE, session |-> Null, turns |-> <<>>]

\* the panel is opened or refreshed, or the way back from a detail is taken
LoadSessionsList ==
  /\ view.pc \in {"none", "list", "detail"}
  /\ firebaseConfig' = getFirebaseConfig(localConfig)
  /\ detail' = DetailClosed
  /\ view' = IF ConfigComplete(firebaseConfig') THEN [ViewNone EXCEPT !.pc = "listing"]
             ELSE ViewNone
  /\ UNCHANGED <<PanelOthers, sessionsCache>>

SessionsListReturn(ok) ==
  /\ view.pc = "listing"
  /\ IF ok
     THEN /\ sessionsCache' = SortSessions(firestoreList(fsDocs, <<"shn-sessions">>, "",
                                                         Len(AutoIds)))
          /\ view' = [ViewNone EXCEPT !.pc = "list"]
     ELSE /\ sessionsCache' = sessionsCache
          /\ view' = ViewNone
  /\ UNCHANGED <<PanelOthers, firebaseConfig, detail>>

\* a session of the list is clicked: its turns are requested
ShowSessionDetail(idx) ==
  /\ view.pc = "list"
  /\ idx \in 1..Len(sessionsCache)
  /\ view' = [pc |-> "loading", session |-> sessionsCache[idx]]
  /\ UNCHANGED <<PanelOthers, firebaseConfig, sessionsCache, detail>>

\* the turns (and the stored extraction, if any) arrive: the detail view is
\* shown, its extraction button bound to the session and these turns
DetailReturn(ok) ==
  /\ view.pc = "loading"
  /\ IF ok
     THEN /\ detail' = [open |-> TRUE, session |-> view.session,
                        turns |-> SessionTurns(fsDocs, view.session)]
          /\ view' = [ViewNone EXCEPT !.pc = "detail"]
     ELSE /\ detail' = DetailClosed
          /\ view' = ViewNone
  /\ UNCHANGED <<PanelOthers, firebaseConfig, sessionsCache>>

(***************************************************************************)
(* saveExtractedData(sessionId, extractedData, extractionType)             *)
(***************************************************************************)
SxOthers == <<cvVars, chVars, jsVars, clock, runVars, beVars, localConfig, nextId, save,
              saves, sessionsCache, view, hVars>>

SaveExtractedData(sessionId, extractedData, extractionType) ==
  /\ sx.pc \in {"idle", "done", "failed"}
  /\ LET type == IF extractionType = Undefined THEN <<"micro">> ELSE extractionType.s
     IN /\ firebaseConfig' = IF firebaseConfig = Null THEN getFirebaseConfig(localConfig)
                             ELSE firebaseConfig
        /\ sx' = IF (firebaseConfig = Null /\ ~ConfigComplete(firebaseConfig'))
                    \/ ~HasUrl(firebaseConfig')
                 THEN [SxFresh EXCEPT !.pc = "failed"]
                 ELSE [pc |-> "put",
                       req |-> ExtractionRequest(sessionId, extractedData, type, clock)]
  /\ UNCHANGED <<SxOthers, fsDocs>>

SaveExtractedReturn(ok) ==
  /\ sx.pc = "put"
  /\ fsDocs' = IF ok THEN Upsert(fsDocs, sx.req.col, sx.req.id, sx.req.fields) ELSE fsDocs
  /\ sx' = [sx EXCEPT !.pc = IF ok THEN "done" ELSE "failed"]
  /\ UNCHANGED <<SxOthers, firebaseConfig>>

(***************************************************************************)
(* The extraction pipelines on their own: the detail view of a session has *)
(* loaded its turns and the user starts one extraction run.                *)
(***************************************************************************)
\* the markups whose turns the detail view has loaded: turns 1..m in turn
\* order, each a paragraph or a heading that starts like a turn heading
TurnBodies == {<<"p">>, <<"h2T">>}
TurnMarkupOf(n, body) == <<(<<"dt1", "dt2", "dt3", "dt4", "dt5">>)[n], "dsA">> \o body
LoadedTurn(n, body) ==
  convertFromFirestoreDoc(
    [col |-> TurnsCol(<<"s1">>), id |-> TurnDocId(TurnOf(TurnMarkupOf(n, body))),
     fields |-> convertToFirestoreFields(TurnData(TurnMarkupOf(n, body), <<"t">>), 0)])
LoadedTurnLists ==
  UNION {{[n \in 1..m |-> LoadedTurn(n, bodies[n])] : bodies \in [1..m -> TurnBodies]}
           : m \in 0..MaxTurns}
LoadedSession ==
  convertFromFirestoreDoc(
    [col |-> <<"shn-sessions">>, id |-> <<"s1">>,
     fields |-> convertToFirestoreFields(SessionData(<<"A">>), 0)])

ExInit ==
  /\ HIdle
  /\ FsIdle
  /\ CvIdle
  /\ ChIdle
  /\ BeIdle
  /\ userApiKey \in {<<>>, <<"k">>}
  /\ db \in BOOLEAN
  /\ currentSessionId \in {Null, Str(<<"s1">>)}
  /\ currentSubject = Null
  /\ clock = 0
  /\ detail \in {[open |-> TRUE, session |-> LoadedSession, turns |-> ts] : ts \in LoadedTurnLists}
  /\ run = [r \in RunIds |-> RunFresh]
  /\ log = [r \in RunIds |-> <<>>]
  /\ sdkDocs = {}

ExNext ==
  \/ \E answer \in PromptAnswers : run["r1"].pc = "idle" /\ RunStart("r1", answer)
  \/ \E resp \in LLMResponses, download \in BOOLEAN : RunLLMReturn("r1", resp, download)
  \/ RunDelayDone("r1")
  \/ \E ok \in BOOLEAN, download \in BOOLEAN : RunPersistReturn("r1", ok, download)

SpecExtract == ExInit /\ [][ExNext]_vars

(***************************************************************************)
(* batchExtract on its own: the host page calls it on a text               *)
(***************************************************************************)
BeInit ==
  /\ HIdle
  /\ FsIdle
  /\ CvIdle
  /\ ChIdle
  /\ JsIdle
  /\ RunIdle
  /\ clock = 0
  /\ llmKey \in {<<>>, <<"k">>}
  /\ be = BeFresh
  /\ beLog = <<>>

\* a response with a result, a response that reports a failure
PacingResponses == {[kind |-> "ok", text |-> <<"j1">>], [kind |-> "http", text |-> <<>>]}
\* the responses of the model for a chunk, one of them not valid JSON
BatchResponses == PacingResponses \cup {[kind |-> "ok", text |-> <<"bad">>],
                                       [kind |-> "shape", text |-> <<>>]}

BeNext ==
  \/ \E text \in BatchTexts, marker \in {"turn", "day"}, level \in ExtractionLevels,
        notify \in BOOLEAN : BatchStart(text, marker, level, notify)
  \/ \E resp \in BatchResponses : BatchReturn(resp)
  \/ BatchDelayDone

SpecBatch == BeInit /\ [][BeNext]_vars

(***************************************************************************)
(* Both pipelines side by side, with the key set and nothing to persist to: *)
(* the pacing of their loops                                               *)
(***************************************************************************)
PlainTurnLists == {[n \in 1..m |-> LoadedTurn(n, <<"p">>)] : m \in 0..MaxTurns}

PaInit ==
  /\ HIdle
  /\ FsIdle
  /\ CvIdle
  /\ ChIdle
  /\ userApiKey = <<"k">>
  /\ db = FALSE
  /\ currentSessionId = Null
  /\ currentSubject = Null
  /\ clock = 0
  /\ detail \in {[open |-> TRUE, session |-> LoadedSession, turns |-> ts] : ts \in PlainTurnLists}
  /\ run = [r \in RunIds |-> RunFresh]
  /\ log = [r \in RunIds |-> <<>>]
  /\ sdkDocs = {}
  /\ llmKey = <<"k">>
  /\ be = BeFresh
  /\ beLog = <<>>

PaNext ==
  \/ \E answer \in {Str(<<"1">>), Str(<<"2">>)} : run["r1"].pc = "idle" /\ RunStart("r1", answer)
  \/ \E resp \in PacingResponses : RunLLMReturn("r1", resp, FALSE)
  \/ RunDelayDone("r1")
  \/ \E text \in BatchTexts : BatchStart(text, "turn", "micro", FALSE)
  \/ \E resp \in PacingResponses : BatchReturn(resp)
  \/ BatchDelayDone

SpecPacing == PaInit /\ [][PaNext]_vars

(***************************************************************************)
(* The widget in a page: canvases are rendered and saved, the sessions     *)
(* panel is used, extractions are run and extracted data is stored          *)
(***************************************************************************)
Contents == {<<"dt1", "dsA", "p">>, <<"dt2", "dsA", "p">>, <<"dt02", "dsA", "hdr", "p">>,
             <<"dsB", "p">>}
Titles == {<<"t">>}
ExtractedTexts == {<<"j1">>, <<"j2">>}

Init ==
  /\ HIdle
  /\ CvIdle
  /\ ChIdle
  /\ BeIdle
  /\ userApiKey = <<"k">>
  /\ db = FALSE
  /\ currentSessionId = Null
  /\ currentSubject = Null
  /\ clock = 0
  /\ RunIdle
  /\ localConfig \in {Null, Config(<<"key">>, <<"proj">>)}
  /\ firebaseConfig = Null
  /\ fsDocs = {}
  /\ nextId = 1
  /\ save = [p \in SaveIds |-> SaveFresh]
  /\ saves = 0
  /\ sessionsCache = <<>>
  /\ view = ViewNone
  /\ sx = SxFresh

Next ==
  \/ \E content \in Contents, title \in Titles : Render("s1", content, title)
  \/ \E ok \in BOOLEAN : SaveListReturn("s1", ok)
  \/ \E ok \in BOOLEAN : SavePostReturn("s1", ok)
  \/ \E ok \in BOOLEAN : SaveTurnReturn("s1", ok)
  \/ \E ok \in BOOLEAN : SaveSessReturn("s1", ok)
  \/ LoadSessionsList
  \/ \E ok \in BOOLEAN : SessionsListReturn(ok)
  \/ \E idx \in 1..MaxSaves : ShowSessionDetail(idx)
  \/ \E ok \in BOOLEAN : DetailReturn(ok)
  \/ \E answer \in {Str(<<"1">>)} : run["r1"].pc = "idle" /\ RunStart("r1", answer)
  \/ \E resp \in PacingResponses : RunLLMReturn("r1", resp, FALSE)
  \/ RunDelayDone("r1")

Spec == Init /\ [][Next]_vars

(***************************************************************************)
(* Turn saves on their own: canvases are rendered in quick succession, so   *)
(* that a save may start while another one waits for the store             *)
(***************************************************************************)
SvInit ==
  /\ HIdle
  /\ CvIdle
  /\ ChIdle
  /\ BeIdle
  /\ JsIdle
  /\ RunIdle
  /\ clock = 0
  /\ localConfig \in {Null, Config(<<"key">>, <<"proj">>)}
  /\ firebaseConfig = Null
  /\ fsDocs = {}
  /\ nextId = 1
  /\ save = [p \in SaveIds |-> SaveFresh]
  /\ saves = 0
  /\ sessionsCache = <<>>
  /\ view = ViewNone
  /\ sx = SxFresh

SvNext ==
  \/ \E p \in SaveIds, content \in Contents, title \in Titles : Render(p, content, title)
  \/ \E p \in SaveIds, ok \in BOOLEAN : SaveListReturn(p, ok)
  \/ \E p \in SaveIds, ok \in BOOLEAN : SavePostReturn(p, ok)
  \/ \E p \in SaveIds, ok \in BOOLEAN : SaveTurnReturn(p, ok)
  \/ \E p \in SaveIds, ok \in BOOLEAN : SaveSessReturn(p, ok)

SpecSave == SvInit /\ [][SvNext]_vars

(***************************************************************************)
(* Extractions of one session, run again and again: the detail view of the *)
(* session is open, time passes, extracted data is stored                   *)
(***************************************************************************)
RerunResponses == PacingResponses \cup {[kind |-> "ok", text |-> <<"j2">>]}

RrInit ==
  /\ HIdle
  /\ CvIdle
  /\ ChIdle
  /\ BeIdle
  /\ userApiKey = <<"k">>
  /\ db \in BOOLEAN
  /\ currentSessionId \in {Null, Str(<<"s1">>)}
  /\ currentSubject = Null
  /\ clock = 0
  /\ detail = [open |-> TRUE, session |-> LoadedSession,
               turns |-> <<LoadedTurn(1, <<"p">>)>>]
  /\ run = [r \in RunIds |-> RunFresh]
  /\ log = [r \in RunIds |-> <<>>]
  /\ sdkDocs = {}
  /\ localConfig \in {Null, Config(<<"key">>, <<"proj">>)}
  /\ firebaseConfig = Null
  /\ fsDocs = {}
  /\ nextId = 1
  /\ save = [p \in SaveIds |-> SaveFresh]
  /\ saves = 0
  /\ sessionsCache = <<>>
  /\ view = [ViewNone EXCEPT !.pc = "detail"]
  /\ sx = SxFresh

RrNext ==
  \/ Tick
  \/ \E answer \in {Str(<<"1">>)} : RunStart("r1", answer)
  \/ \E resp \in RerunResponses : RunLLMReturn("r1", resp, FALSE)
  \/ \E ok \in BOOLEAN : RunPersistReturn("r1", ok, FALSE)
  \/ \E data \in ExtractedTexts, type \in {Undefined, Str(<<"meso">>)} :
       SaveExtractedData(<<"s1">>, data, type)
  \/ \E ok \in BOOLEAN : SaveExtractedReturn(ok)

SpecRerun == RrInit /\ [][RrNext]_vars

(***************************************************************************)
(* One save of a canvas and one run, side by side                          *)
(***************************************************************************)
RqInit ==
  /\ HIdle
  /\ CvIdle
  /\ ChIdle
  /\ BeIdle
  /\ userApiKey = <<"k">>
  /\ db = FALSE
  /\ currentSessionId = Null
  /\ currentSubject = Null
  /\ clock = 0
  /\ detail \in {[open |-> TRUE, session |-> LoadedSession, turns |-> ts] :
                   ts \in {ps \in PlainTurnLists : Len(ps) = 2}}
  /\ run = [r \in RunIds |-> RunFresh]
  /\ log = [r \in RunIds |-> <<>>]
  /\ sdkDocs = {}
  /\ localConfig = Config(<<"key">>, <<"proj">>)
  /\ firebaseConfig = Null
  /\ fsDocs = {}
  /\ nextId = 1
  /\ save = [p \in SaveIds |-> SaveFresh]
  /\ saves = 0
  /\ sessionsCache = <<>>
  /\ view = ViewNone
  /\ sx = SxFresh

RqNext ==
  \/ \E content \in Contents, title \in Titles : Render("s1", content, title)
  \/ \E ok \in BOOLEAN : SaveListReturn("s1", ok)
  \/ \E ok \in BOOLEAN : SavePostReturn("s1", ok)
  \/ \E ok \in BOOLEAN : SaveTurnReturn("s1", ok)
  \/ \E ok \in BOOLEAN : SaveSessReturn("s1", ok)
  \/ \E answer \in {Str(<<"1">>), Str(<<"2">>)} : RunStart("r1", answer)
  \/ \E resp \in PacingResponses : RunLLMReturn("r1", resp, FALSE)
  \/ RunDelayDone("r1")

SpecRequests == RqInit /\ [][RqNext]_vars

(***************************************************************************)

(* The prompt of runExtraction on its own                                  *)
(***************************************************************************)
\* what can be typed into the prompt (Null: the prompt is cancelled)
PromptChars == {"0", "1", "2", "9", "-", "a", " "}
TypedAnswers == {Null} \cup {Str(s) : s \in SeqsUpTo(PromptChars, MaxTextLen - 1)}

PrInit ==
  /\ CvIdle /\ ChIdle /\ JsIdle /\ RunIdle /\ BeIdle /\ FsIdle
  /\ clock = 0
  /\ hPc = "in"
  /\ hIn \in TypedAnswers
  /\ hOut = <<>>

\* the prompt returns: the run is cancelled or the chunk size is computed
PromptReturn ==
  /\ hPc = "in"
  /\ hPc' = "out"
  /\ hOut' = IF ~Truthy(hIn) THEN [cancelled |-> TRUE, chunkSize |-> 0]
             ELSE [cancelled |-> FALSE, chunkSize |-> ChunkSizeOf(hIn.s)]
  /\ UNCHANGED <<hIn, cvVars, chVars, jsVars, clock, runVars, beVars, fsVars>>

PrNext == PromptReturn

SpecPrompt == PrInit /\ [][PrNext]_vars

(***************************************************************************)

(* callLLM on its own                                                      *)
(***************************************************************************)
\* the responses of the generation endpoint: a text, or a failure
FenceAlphabet == {"FENCE", "json", " ", "x"}
FenceResponses ==
  {[kind |-> "ok", text |-> t] : t \in SeqsUpTo(FenceAlphabet, MaxTextLen)}
    \cup {[kind |-> "http", text |-> <<>>], [kind |-> "shape", text |-> <<>>]}

FnInit ==
  /\ CvIdle /\ ChIdle /\ RunIdle /\ BeIdle /\ FsIdle
  /\ userApiKey = <<"k">>
  /\ db = FALSE
  /\ currentSessionId = Null
  /\ currentSubject = Null
  /\ clock = 0
  /\ hPc = "in"
  /\ hIn \in FenceResponses
  /\ hOut = <<>>

\* callLLM after the response
CallLLMReturn ==
  /\ hPc = "in"
  /\ hPc' = "out"
  /\ hOut' = callLLM(userApiKey, hIn)
  /\ UNCHANGED <<hIn, cvVars, chVars, jsVars, clock, runVars, beVars, fsVars>>

FnNext == CallLLMReturn

SpecFence == FnInit /\ [][FnNext]_vars

(***************************************************************************)

(* loadSessionsList on its own, over stores of sessions updated at         *)
(* different times                                                         *)
(***************************************************************************)
ListTimes == 0..2
\* a stored session, with the time of its last update or without the field
StoredSession(n, at) ==
  LET all == convertToFirestoreFields(SessionData(<<"A">>), at.t)
  IN [col |-> <<"shn-sessions">>, id |-> AutoId(n),
      fields |-> IF at.kind = "never" THEN [k \in DOMAIN all \ {"updatedAt"} |-> all[k]]
                 ELSE all]
UpdateOptions ==
  {[kind |-> "absent", t |-> 0], [kind |-> "never", t |-> 0]}
    \cup {[kind |-> "at", t |-> t] : t \in ListTimes}
ListStores ==
  {{StoredSession(n, at[n]) : n \in {m \in 1..3 : at[m].kind # "absent"}} :
     at \in [1..3 -> UpdateOptions]}

LsInit ==
  /\ HIdle /\ CvIdle /\ ChIdle /\ JsIdle /\ RunIdle /\ BeIdle
  /\ clock = 0
  /\ localConfig \in {Null, Config(<<"key">>, <<"proj">>)}
  /\ firebaseConfig = Null
  /\ fsDocs \in ListStores
  /\ nextId = 4
  /\ save = [p \in SaveIds |-> SaveFresh]
  /\ saves = 0
  /\ sessionsCache = <<>>
  /\ view = ViewNone
  /\ sx = SxFresh

LsNext ==
  \/ LoadSessionsList
  \/ \E ok \in BOOLEAN : SessionsListReturn(ok)

SpecList == LsInit /\ [][LsNext]_vars

(***************************************************************************)

(* convertHtmlToMarkdown on its own: two conversions of one canvas, the    *)
(* widget state changing between them as a save changes it                 *)
(***************************************************************************)
SectionTokens == {"hdr", "p", "bq", "h2", "dash", "ol", "sec"}
Markups == SeqsUpTo(SectionTokens, MaxSections)

MkInit ==
  /\ CvIdle /\ ChIdle /\ JsIdle /\ RunIdle /\ BeIdle /\ FsIdle
  /\ clock = 0
  /\ hPc = "in"
  /\ hIn \in [content : Markups, turn : {Num(FALSE, n, 0) : n \in 1..MaxTurns}]
  /\ hOut = <<>>

\* the conversion of saveCanvasToFirebase
Convert ==
  /\ hPc = "in"
  /\ hPc' = "again"
  /\ hOut' = <<convertHtmlToMarkdown(hIn.content, hIn.turn)>>
  /\ UNCHANGED <<hIn, cvVars, chVars, jsVars, clock, runVars, beVars, fsVars>>

\* the save goes on: the session and the subject of the canvas become current
SubjectChange ==
  /\ hPc = "again"
  /\ currentSessionId = Null
  /\ currentSessionId' = Str(AutoId(1))
  /\ currentSubject' = Str(SubjectOf(hIn.content))
  /\ UNCHANGED <<hVars, cvVars, chVars, userApiKey, db, clock, runVars, beVars, fsVars>>

\* the same canvas is converted once more
ConvertAgain ==
  /\ hPc = "again"
  /\ hPc' = "out"
  /\ hOut' = Append(hOut, convertHtmlToMarkdown(hIn.content, hIn.turn))
  /\ UNCHANGED <<hIn, cvVars, chVars, jsVars, clock, runVars, beVars, fsVars>>

MkNext == Convert \/ SubjectChange \/ ConvertAgain

SpecMarkup == MkInit /\ [][MkNext]_vars

(***************************************************************************)

(* A run with the user at the sessions panel: every LLM call returns or    *)
(* fails and every pacing timer fires, the user acts or not                *)
(***************************************************************************)
LvInit ==
  /\ HIdle
  /\ CvIdle
  /\ ChIdle
  /\ BeIdle
  /\ userApiKey \in {<<>>, <<"k">>}
  /\ db \in BOOLEAN
  /\ currentSessionId \in {Null, Str(<<"s1">>)}
  /\ currentSubject = Null
  /\ clock = 0
  /\ detail \in {[open |-> TRUE, session |-> LoadedSession, turns |-> ts] : ts \in PlainTurnLists}
  /\ run = [r \in RunIds |-> RunFresh]
  /\ log = [r \in RunIds |-> <<>>]
  /\ sdkDocs = {}
  /\ localConfig = Config(<<"key">>, <<"proj">>)
  /\ firebaseConfig = Null
  /\ fsDocs = {}
  /\ nextId = 1
  /\ save = [p \in SaveIds |-> SaveFresh]
  /\ saves = 0
  /\ sessionsCache = <<>>
  /\ view = [ViewNone EXCEPT !.pc = "detail"]
  /\ sx = SxFresh

LvLLMReturn == \E resp \in PacingResponses : RunLLMReturn("r1", resp, FALSE)

LvNext ==
  \/ \E answer \in {Null, Str(<<"1">>), Str(<<"2">>)} :
       run["r1"].pc = "idle" /\ RunStart("r1", answer)
  \/ LvLLMReturn
  \/ RunDelayDone("r1")
  \/ \E ok \in BOOLEAN : RunPersistReturn("r1", ok, FALSE)
  \/ LoadSessionsList
  \/ \E ok \in BOOLEAN : SessionsListReturn(ok)
  \/ Tick

SpecLive ==
  /\ LvInit /\ [][LvNext]_vars
  /\ WF_vars(LvLLMReturn)
  /\ WF_vars(RunDelayDone("r1"))

(***************************************************************************)

(* renderAppShell under every kind of stored configuration                 *)
(***************************************************************************)
StoredConfigs ==
  {Null} \cup {Config(k, p) : k \in {<<>>, <<"key">>}, p \in {<<>>, <<"proj">>}}

RnInit ==
  /\ HIdle
  /\ CvIdle
  /\ ChIdle
  /\ BeIdle
  /\ JsIdle
  /\ RunIdle
  /\ clock = 0
  /\ localConfig \in StoredConfigs
  /\ firebaseConfig = Null
  /\ fsDocs = {}
  /\ nextId = 1
  /\ save = [p \in SaveIds |-> SaveFresh]
  /\ saves = 0
  /\ sessionsCache = <<>>
  /\ view = ViewNone
  /\ sx = SxFresh

RnNext ==
  \/ \E content \in Contents, title \in Titles : Render("s1", content, title)
  \/ \E ok \in BOOLEAN : SaveListReturn("s1", ok)
  \/ \E ok \in BOOLEAN : SavePostReturn("s1", ok)
  \/ \E ok \in BOOLEAN : SaveTurnReturn("s1", ok)
  \/ \E ok \in BOOLEAN : SaveSessReturn("s1", ok)

SpecRender == RnInit /\ [][RnNext]_vars

(***************************************************************************)

(* Runs and batch extractions with and without an API key, the key being   *)
(* set or cleared at any moment                                            *)
(***************************************************************************)
ApiKeys == {<<>>, <<"k">>}

KyInit ==
  /\ HIdle
  /\ FsIdle
  /\ CvIdle
  /\ ChIdle
  /\ userApiKey \in ApiKeys
  /\ db = FALSE
  /\ currentSessionId = Null
  /\ currentSubject = Null
  /\ clock = 0
  /\ detail \in {[open |-> TRUE, session |-> LoadedSession, turns |-> ts] : ts \in PlainTurnLists}
  /\ run = [r \in RunIds |-> RunFresh]
  /\ log = [r \in RunIds |-> <<>>]
  /\ sdkDocs = {}
  /\ llmKey \in ApiKeys
  /\ be = BeFresh
  /\ beLog = <<>>

\* setApiKey(apiKey): the key of the first preset is replaced
SetApiKey(apiKey) ==
  /\ userApiKey # apiKey
  /\ userApiKey' = apiKey
  /\ UNCHANGED <<cvVars, chVars, db, currentSessionId, currentSubject, clock, runVars,
                 beVars, fsVars, hVars>>

KyNext ==
  \/ \E apiKey \in ApiKeys : SetApiKey(apiKey)
  \/ \E answer \in {Str(<<"1">>), Str(<<"2">>)} : RunStart("r1", answer)
  \/ \E resp \in PacingResponses : RunLLMReturn("r1", resp, FALSE)
  \/ RunDelayDone("r1")
  \/ \E text \in {<<"T1", "x", "T2">>, <<"x">>} : BatchStart(text, "turn", "micro", FALSE)
  \/ \E resp \in PacingResponses : BatchReturn(resp)
  \/ BatchDelayDone

SpecKey == KyInit /\ [][KyNext]_vars

(***************************************************************************)

(* The extraction button pressed while a run is in flight                  *)
(***************************************************************************)
TwInit ==
  /\ HIdle
  /\ FsIdle
  /\ CvIdle
  /\ ChIdle
  /\ BeIdle
  /\ userApiKey = <<"k">>
  /\ db = FALSE
  /\ currentSessionId = Null
  /\ currentSubject = Null
  /\ clock = 0
  /\ detail \in {[open |-> TRUE, session |-> LoadedSession, turns |-> ts] : ts \in PlainTurnLists}
  /\ run = [r \in RunIds |-> RunFresh]
  /\ log = [r \in RunIds |-> <<>>]
  /\ sdkDocs = {}

TwNext ==
  \/ \E r \in RunIds, answer \in {Str(<<"1">>), Str(<<"2">>)} : RunStart(r, answer)
  \/ \E r \in RunIds, resp \in PacingResponses : RunLLMReturn(r, resp, FALSE)
  \/ \E r \in RunIds : RunDelayDone(r)

SpecTwice == TwInit /\ [][TwNext]_vars

(***************************************************************************)

(* exportSessionAsJSON from the session list, beside the turn saves        *)
(***************************************************************************)
\* the collection exportSessionAsJSON lists when it is given no turns
ExportTurnsCol(sid) == <<"sessions">> \o sid \o <<"turns">>

\* the export button of a session of the list: without turns, the export
\* runs up to the request of the turns
ExportSession(idx) ==
  /\ view.pc = "list"
  /\ hPc \in {"off", "out", "failed"}
  /\ idx \in 1..Len(sessionsCache)
  /\ hPc' = "fetch"
  /\ hIn' = sessionsCache[idx]
  /\ hOut' = <<>>
  /\ UNCHANGED <<cvVars, chVars, jsVars, clock, runVars, beVars, fsVars>>

\* the turns arrive (or the listing fails): the raw export holds them
ExportReturn(ok) ==
  /\ hPc = "fetch"
  /\ hPc' = IF ok THEN "out" ELSE "failed"
  /\ hOut' = IF ok
             THEN firestoreList(fsDocs, ExportTurnsCol(Prop(hIn, "_id").s), "turnNumber", PageSize)
             ELSE <<>>
  /\ UNCHANGED <<hIn, cvVars, chVars, jsVars, clock, runVars, beVars, fsVars>>

EpInit ==
  /\ HIdle
  /\ CvIdle
  /\ ChIdle
  /\ BeIdle
  /\ JsIdle
  /\ RunIdle
  /\ clock = 0
  /\ localConfig = Config(<<"key">>, <<"proj">>)
  /\ firebaseConfig = Null
  /\ fsDocs = {}
  /\ nextId = 1
  /\ save = [p \in SaveIds |-> SaveFresh]
  /\ saves = 0
  /\ sessionsCache = <<>>
  /\ view = ViewNone
  /\ sx = SxFresh

EpNext ==
  \/ \E content \in Contents, title \in Titles : Render("s1", content, title)
  \/ \E ok \in BOOLEAN : SaveListReturn("s1", ok)
  \/ \E ok \in BOOLEAN : SavePostReturn("s1", ok)
  \/ \E ok \in BOOLEAN : SaveTurnReturn("s1", ok)
  \/ \E ok \in BOOLEAN : SaveSessReturn("s1", ok)
  \/ LoadSessionsList
  \/ \E ok \in BOOLEAN : SessionsListReturn(ok)
  \/ \E idx \in 1..MaxSaves : ExportSession(idx)
  \/ \E ok \in BOOLEAN : ExportReturn(ok)

SpecExport == EpInit /\ [][EpNext]_vars

(***************************************************************************)

(* firestoreGet on its own                                                 *)
(***************************************************************************)
\* the documents a store may hold when firestoreGet is called
GetDocs ==
  { [col |-> <<"extractions">>, id |-> id, fields |-> f] :
      id \in {<<"s1", "_micro">>, <<"s2", "_micro">>},
      f \in {<<>>, [data |-> [stringValue |-> <<"j1">>]]} }
GetIds == {<<"s1", "_micro">>, <<"s2", "_micro">>, <<"s3", "_micro">>}
GetStores ==
  {S \in SUBSET GetDocs : \A d, e \in S : d.id = e.id => d = e}

GtInit ==
  /\ CvIdle /\ ChIdle /\ JsIdle /\ RunIdle /\ BeIdle /\ FsIdle
  /\ clock = 0
  /\ hPc = "in"
  /\ hIn \in [docs : GetStores, id : GetIds, fault : GetFaults]
  /\ hOut = <<>>

\* firestoreGet up to its await of fetch: the request reaches the store
FirestoreGetFetch ==
  /\ hPc = "in"
  /\ hPc' = "fetch"
  /\ hOut' = GetResponse(hIn.docs, <<"extractions">>, hIn.id, hIn.fault)
  /\ UNCHANGED <<hIn, cvVars, chVars, jsVars, clock, runVars, beVars, fsVars>>

\* firestoreGet after the response
FirestoreGetReturn ==
  /\ hPc = "fetch"
  /\ hPc' = "out"
  /\ hOut' = firestoreGetResult(hOut)
  /\ UNCHANGED <<hIn, cvVars, chVars, jsVars, clock, runVars, beVars, fsVars>>

GtNext == FirestoreGetFetch \/ FirestoreGetReturn

SpecGet == GtInit /\ [][GtNext]_vars

(***************************************************************************)

(* Claims                                                                  *)
(***************************************************************************)
\* C1: for every native value built from strings, integers, non-integer
\* doubles, booleans, null, arrays and nested maps, reading back the wire
\* form of the value gives the value again.
C1_RoundTrip == cvPc = "out" => cvBack = cvValue


\* what the claims speak of: the markers of the text and the pieces they delimit
MarkerPositions(text, markerType) == {p \in 1..Len(text) : text[p] \in MarkerRegex(markerType)}
MarkerCount(text, markerType) == Cardinality(MarkerPositions(text, markerType))
\* the j-th marker-delimited chunk: from the j-th marker up to the next marker or the end
NthMarker(text, markerType, j) ==
  CHOOSE p \in MarkerPositions(text, markerType) :
    Cardinality({q \in MarkerPositions(text, markerType) : q < p}) = j - 1
MarkerChunk(text, markerType, j) ==
  LET k == MarkerCount(text, markerType)
      from == NthMarker(text, markerType, j)
      to == IF j < k THEN NthMarker(text, markerType, j + 1) - 1 ELSE Len(text)
  IN SubSeq(text, from, to)
\* the text before the first marker (the whole text when there is none)
Preamble(text, markerType) ==
  IF MarkerCount(text, markerType) = 0 THEN text
  ELSE SubSeq(text, 1, NthMarker(text, markerType, 1) - 1)
CeilDiv(a, b) == (a + b - 1) \div b

\* the pieces a text falls into: its non-blank preamble, if any, then its
\* marker-delimited chunks
Pieces(text, markerType) ==
  LET k == MarkerCount(text, markerType)
      pre == IF Trim(Preamble(text, markerType)) # <<>>
             THEN <<Preamble(text, markerType)>> ELSE <<>>
  IN pre \o [j \in 1..k |-> MarkerChunk(text, markerType, j)]
BatchOf(pieces, b, n) == Join(SubSeq(pieces, (b - 1) * n + 1, Min(b * n, Len(pieces))), <<"\n", "\n">>)

\* C2 (as stated): a text with k markers and a batch size n gives exactly
\* ceil(k/n) batches, and batch b is the marker-delimited chunks
\* (b-1)n+1 .. min(bn, k) of the text, in order.
C2_Original ==
  chPc = "out" =>
    LET k == MarkerCount(chText, chMarker)
        chunks == [j \in 1..k |-> MarkerChunk(chText, chMarker, j)]
    IN /\ Len(chOut) = CeilDiv(k, chSize)
       /\ \A b \in 1..Len(chOut) : chOut[b] = BatchOf(chunks, b, chSize)

\* C2 (amended): with c the number of pieces of the text, that is its k
\* marker-delimited chunks plus one for a non-blank text before the first
\* marker, chunking gives exactly ceil(c/n) batches, and batch b is the pieces
\* (b-1)n+1 .. min(bn, c), in order: every piece once, none twice.
C2_Batches ==
  chPc = "out" =>
    LET pieces == Pieces(chText, chMarker)
    IN /\ Len(chOut) = CeilDiv(Len(pieces), chSize)
       /\ \A b \in 1..Len(chOut) : chOut[b] = BatchOf(pieces, b, chSize)

\* a text with three markers and a non-blank preamble was chunked two to a batch
C2_Witness ==
  /\ chPc = "out"
  /\ MarkerCount(chText, chMarker) = 3
  /\ Trim(Preamble(chText, chMarker)) # <<>>
  /\ chSize = 2
  /\ Len(chOut) = 2

\* what the claims say of a run: the events of its log
EventsOf(lg, e) == {p \in 1..Len(lg) : lg[p].e = e}
CountOf(lg, e) == Cardinality(EventsOf(lg, e))
\* the calls carry the indices 1, 2, .. in this order, and each call but the
\* last one of the log has returned before anything else happens
Sequential(lg) ==
  \A p \in EventsOf(lg, "call") :
    /\ lg[p].i = Cardinality({q \in EventsOf(lg, "call") : q <= p})
    /\ p < Len(lg) => lg[p + 1].e = "ret" /\ lg[p + 1].i = lg[p].i
\* a text without its white space
NonWhite(text) == SelectSeq(text, LAMBDA tok : tok \notin WhiteChars)
RECURSIVE TurnsText(_, _, _)
TurnsText(turns, from, to) ==
  IF from > to THEN <<>>
  ELSE NonWhite(TurnMarkdown(turns[from])) \o TurnsText(turns, from + 1, to)
\* every batch of the run has been called and has returned
Completed(me) == me.pc \in {"persist", "done"}

\* C3: in one extraction run one LLM call is issued per batch, in batch index
\* order, call i+1 never before call i has returned; for m turns and batch
\* size n these are exactly ceil(m/n) calls, call i covering the turns
\* (i-1)n+1 .. min(in, m).
C3_Original ==
  LET lg == log["r1"]
      me == run["r1"]
      m == Len(me.turns)
      n == me.chunkSize
  IN /\ Sequential(lg)
     /\ \A p \in EventsOf(lg, "call") :
          /\ lg[p].i <= CeilDiv(m, n)
          /\ NonWhite(lg[p].msg)
               = NonWhite(UserMessage(TurnsText(me.turns, (lg[p].i - 1) * n + 1,
                                                Min(lg[p].i * n, m))))
     /\ Completed(me) => CountOf(lg, "call") = CeilDiv(m, n)

\* C4: in the interactive path, when the LLM call of a batch fails, no LLM
\* call is issued for any later batch, no extraction result is persisted, no
\* download is offered, and the run ends in the reported-failure state.
C4_AbortOnFailure ==
  LET lg == log["r1"]
      me == run["r1"]
  IN \A p \in EventsOf(lg, "ret") :
       ~lg[p].ok =>
         /\ p = Len(lg)
         /\ me.pc = "failed"
         /\ me.status = "error"
         /\ ~me.offered
         /\ ~me.downloaded
         /\ me.target = NoTarget
         /\ sdkDocs = {}

\* the second of three batches failed in a run that had a session to persist to
C4_Witness ==
  /\ run["r1"].pc = "failed"
  /\ Len(run["r1"].chunks) = 3
  /\ db
  /\ Truthy(currentSessionId)
  /\ log["r1"] # <<>>
  /\ log["r1"][Len(log["r1"])] = RetEvent(2, FALSE)

\* C5: batchExtract issues a call for every one of its c chunks and returns
\* exactly c entries, entry i carrying the index i and success = true exactly
\* when the call for chunk i succeeded, whatever calls failed.
C5_BatchEntries ==
  be.pc = "done" =>
    LET c == Len(be.chunks)
    IN /\ Sequential(beLog)
       /\ CountOf(beLog, "call") = c
       /\ CountOf(beLog, "ret") = c
       /\ Len(be.results) = c
       /\ \A i \in 1..c :
            /\ be.results[i].index = i - 1
            /\ \E p \in EventsOf(beLog, "ret") :
                 beLog[p].i = i /\ be.results[i].success = beLog[p].ok
            /\ \E p \in EventsOf(beLog, "call") :
                 beLog[p].i = i /\ beLog[p].msg = be.chunks[i]

\* three chunks, the call of the second one failed, the third one succeeded
C5_Witness ==
  /\ be.pc = "done"
  /\ Len(be.chunks) = 3
  /\ Len(be.results) = 3
  /\ ~be.results[2].success
  /\ be.results[3].success

\* the pacing of a loop over b batches: every delay lasts ms, follows the
\* return of a batch that is not the last and is followed by the call of the
\* next batch; every call but the first follows a delay; a loop that went
\* through all its batches has delayed exactly b - 1 times
Paced(lg, b, ms, through) ==
  /\ \A p \in EventsOf(lg, "delay") :
       /\ lg[p].ms = ms
       /\ lg[p].i < b
       /\ p > 1 /\ lg[p - 1].e = "ret" /\ lg[p - 1].i = lg[p].i
       /\ p < Len(lg) => lg[p + 1].e = "call" /\ lg[p + 1].i = lg[p].i + 1
  /\ \A p \in EventsOf(lg, "call") :
       lg[p].i > 1 => p > 1 /\ lg[p - 1].e = "delay" /\ lg[p - 1].i = lg[p].i - 1
  /\ through /\ b >= 1 => CountOf(lg, "delay") = b - 1

\* C6: in an extraction run with b batches a pacing delay occurs exactly b-1
\* times, once after the call of each batch except the last and before the
\* call of the next batch, never after the last batch: 2000 ms in
\* runExtraction, 500 ms in batchExtract.
C6_Pacing ==
  /\ Paced(log["r1"], Len(run["r1"].chunks), 2000, Completed(run["r1"]))
  /\ Paced(beLog, Len(be.chunks), 500, be.pc = "done")

\* a run of three batches and a batch extraction of two chunks went through
C6_Witness ==
  /\ run["r1"].pc = "done"
  /\ Len(run["r1"].chunks) = 3
  /\ CountOf(log["r1"], "delay") = 2
  /\ be.pc = "done"
  /\ Len(be.chunks) = 2
  /\ CountOf(beLog, "delay") = 1

\* the documents of the sessions collection, of the turns collections, of
\* the extractions collection
SessionDocs == {d \in fsDocs : d.col = <<"shn-sessions">>}
TurnDocs == {d \in fsDocs : Len(d.col) = 3 /\ d.col[1] = "shn-sessions" /\ d.col[3] = "turns"}
ExtractionDocs == {d \in fsDocs : d.col = <<"extractions">>}

\* C7: after any sequence of extraction runs for the same session and kind
\* the store holds exactly one extraction result for that (session, kind)
\* pair, the result of the most recent completed run: a re-run overwrites.
C7_Original ==
  /\ \A d1, d2 \in sdkDocs : d1.sid = d2.sid => d1 = d2
  /\ \A d1, d2 \in ExtractionDocs :
       /\ d1.fields.sessionId = d2.fields.sessionId
       /\ d1.fields.extractionType = d2.fields.extractionType
       => d1 = d2
  /\ run["r1"].pc = "done" /\ run["r1"].status = "saved" =>
       \E d \in sdkDocs : /\ Str(d.sid.s) = Prop(run["r1"].session, "_id")
                          /\ d.result = run["r1"].finalResult

\* C8: after any sequence of turn saves the store never holds two sessions
\* with the same subject, also when two saves overlap, and the turns of one
\* subject are all stored in the same session.
C8_Original ==
  /\ \A d1, d2 \in SessionDocs :
       /\ "subject" \in DOMAIN d1.fields
       /\ "subject" \in DOMAIN d2.fields
       /\ d1.fields.subject = d2.fields.subject
       => d1 = d2
  /\ \A t1, t2 \in TurnDocs :
       SubjectOf(convertFromFirestoreValue(t1.fields.rawHtml).s)
         = SubjectOf(convertFromFirestoreValue(t2.fields.rawHtml).s)
       => t1.col = t2.col

\* C9: after any sequence of turn saves no session holds two turn documents
\* with the same turn number: saving turn N into a session that has a turn N
\* replaces that turn document.
C9_UniqueTurns ==
  \A t1, t2 \in TurnDocs :
    /\ t1.col = t2.col
    /\ convertFromFirestoreValue(t1.fields.turnNumber)
         = convertFromFirestoreValue(t2.fields.turnNumber)
    => t1 = t2

\* a save has written turn 2 (given as "02") over the turn 2 of its session
C9_Witness ==
  \E p \in SaveIds :
    /\ save[p].pc \in {"sess", "done"}
    /\ save[p].replaced
    /\ save[p].content = <<"dt02", "dsA", "hdr", "p">>
    /\ \E t \in TurnDocs : /\ convertFromFirestoreValue(t.fields.rawHtml) = Str(save[p].content)
                           /\ convertFromFirestoreValue(t.fields.turnNumber) = Num(FALSE, 2, 0)

\* C10: when an extraction run starts, the text it sends to the LLM is built
\* from every turn stored for the session at that moment, in ascending turn
\* order: no turn saved before the start is missing.
C10_Original ==
  LET me == run["r1"]
  IN me.pc \notin {"idle", "nokey", "cancelled"} =>
       NonWhite(AllMarkdown(me.turns)) = TurnsText(me.stored, 1, Len(me.stored))


\* C11: firestoreGet of a document identifier that the store does not hold
\* (the store answers not-found) returns null and throws nothing.
C11_NotFoundNull ==
  (hPc = "out" /\ hIn.fault = "none"
     /\ ~\E d \in hIn.docs : d.id = hIn.id)
    => hOut = [threw |-> FALSE, value |-> Null]
C11_Witness ==
  /\ hPc = "out" /\ hIn.fault = "none" /\ hIn.docs # {}
  /\ ~\E d \in hIn.docs : d.id = hIn.id
  /\ hOut = [threw |-> FALSE, value |-> Null]


\* C12: when an activation of the turn save has failed, and no other
\* activation has run beside it, the current session id, the current
\* subject and the cached session list are what they were when it started.
C12_Original ==
  \A p \in SaveIds :
    (save[p].failed /\ \A q \in SaveIds \ {p} : save[q].pc = "idle")
      => /\ currentSessionId = save[p].before.sid
         /\ currentSubject = save[p].before.subject
         /\ sessionsCache = save[p].before.cache


\* C13: within one operation no request is issued twice: an activation of
\* the turn save issues each of its store requests at most once, a run
\* issues the LLM request of each batch at most once, and after a failed
\* request the operation has ended with that request as its last one.
NoRepeat(s) == \A i, j \in 1..Len(s) : s[i] = s[j] => i = j
C13_NoRetry ==
  /\ \A p \in SaveIds :
       /\ NoRepeat(save[p].sent)
       /\ save[p].failed => save[p].pc = "done"
  /\ \A r \in RunIds :
       /\ NoRepeat([k \in 1..CountOf(log[r], "call") |->
                      log[r][CHOOSE q \in EventsOf(log[r], "call") :
                               Cardinality({o \in EventsOf(log[r], "call") : o <= q}) = k].i])
       /\ \A q \in EventsOf(log[r], "ret") : ~log[r][q].ok => q = Len(log[r])
C13_Witness ==
  /\ save["s1"].failed /\ Len(save["s1"].sent) = 3
  /\ run["r1"].pc = "failed" /\ CountOf(log["r1"], "call") = 2


\* C14 (as stated): for a text without any marker of the chosen kind,
\* chunkByMarker returns exactly one chunk, and that chunk is the text with
\* its leading and trailing white space removed.
C14_Original ==
  (chPc = "out" /\ MarkerCount(chText, chMarker) = 0) => chOut = <<Trim(chText)>>
\* C14 (amended): for a text without any marker of the chosen kind,
\* chunkByMarker returns no chunk when the text is blank, and otherwise
\* exactly one chunk, which is the text as it is, white space included.
C14_WholeText ==
  (chPc = "out" /\ MarkerCount(chText, chMarker) = 0)
    => chOut = IF Trim(chText) = <<>> THEN <<>> ELSE <<chText>>
C14_Witness ==
  /\ chPc = "out" /\ MarkerCount(chText, chMarker) = 0
  /\ Trim(chText) # <<>> /\ Trim(chText) # chText
  /\ chOut = <<chText>>


\* C15: the batch size a run works with lies in 1..100: a typed number is
\* clamped (below 1 gives 1, above 100 gives 100), and an input that is not
\* a number gives the default 10.
C15_Original ==
  (hPc = "out" /\ ~hOut.cancelled)
    => LET n == parseInt(hIn.s)
       IN /\ hOut.chunkSize \in 1..100
          /\ ~n.nan => hOut.chunkSize = Max(1, Min(100, IntOf(n)))
          /\ n.nan => hOut.chunkSize = 10


UpdateTime(session) ==
  LET u == Prop(session, "updatedAt")
  IN IF u.t = "date" THEN u.d ELSE IF u.t = "timestamp" THEN u.ms ELSE 0
C17_Original ==
  view.pc = "list"
    => \A i, j \in 1..Len(sessionsCache) :
         i < j => UpdateTime(sessionsCache[i]) >= UpdateTime(sessionsCache[j])


KnownTypes == {"p", "bq", "h2", "h2T", "dash", "ol"}
RECURSIVE Flatten(_)
Flatten(blocks) == IF blocks = <<>> THEN <<>> ELSE Head(blocks) \o Flatten(Tail(blocks))
C20_Original ==
  \A r \in RunIds :
    Completed(run[r])
      => /\ Len(run[r].results) = Len(run[r].chunks)
         /\ run[r].finalResult = Join(run[r].results, <<",", "\n">>)
\* C20 (amended): when a run has completed, it has one result per batch, and
\* its final result is the results that are not blank, in batch order,
\* joined by a comma and a line break; a blank result adds nothing, no
\* separator either.
C20_NonBlankJoined ==
  \A r \in RunIds :
    Completed(run[r])
      => /\ Len(run[r].results) = Len(run[r].chunks)
         /\ run[r].finalResult
              = Join(SelectSeq(run[r].results, LAMBDA res : Trim(res) # <<>>), <<",", "\n">>)
C20_Witness ==
  /\ Completed(run["r1"])
  /\ Len(run["r1"].results) = 3
  /\ run["r1"].results[2] = <<>>
  /\ run["r1"].finalResult = <<"j1", ",", "\n", "j2">>


\* C21: a run that waits for an LLM call or for its pacing delay reaches
\* the completed state or the reported failure, whatever the user does at
\* the panel meanwhile, as long as every LLM call returns or fails and every
\* pacing timer fires.
C21_RunEnds ==
  (run["r1"].pc \in {"call", "delay"})
    ~> (run["r1"].status \in {"complete", "saved", "saveFailed", "error"})
C21_Witness ==
  /\ run["r1"].status = "complete"
  /\ CountOf(log["r1"], "call") = MaxTurns
  /\ view.pc = "list" /\ ~detail.open


C23_NoKeyNoCall ==
  [][/\ (userApiKey = <<>> /\ userApiKey' = <<>>)
          => \A r \in RunIds :
               /\ log'[r] # log[r]
                    => \A q \in 1..Len(log'[r]) : q > Len(log[r]) => log'[r][q].e # "call"
               /\ (run'[r] # run[r] /\ run[r].pc = "delay")
                    => run'[r].pc = "failed" /\ run'[r].status = "error"
               /\ (run'[r] # run[r] /\ RunEnded(r))
                    => run'[r].pc = "nokey" /\ log'[r] = <<>>
     /\ llmKey = <<>> => \A k \in 1..Len(be'.results) : ~be'.results[k].success
    ]_vars
C23_Witness ==
  /\ userApiKey = <<>>
  /\ run["r1"].pc = "failed" /\ CountOf(log["r1"], "call") = 1
  /\ llmKey = <<>> /\ Len(be.results) = 2


\* C24: at most one run is in flight at a time, so that no two LLM calls
\* are ever in flight together.
C24_Original ==
  \A r, q \in RunIds :
    r # q => /\ RunEnded(r) \/ RunEnded(q)
             /\ ~(run[r].pc = "call" /\ run[q].pc = "call")


\* C25: the session update of a turn save is written to the session under
\* which that save has written its turn document, however the steps of
\* another turn save fall between its own.
C25_Original ==
  [][\A p \in SaveIds :
       (save[p].pc = "turn" /\ save'[p].pc = "sess")
         => TurnsCol(save'[p].req.id) = save[p].req.col]_vars


\* C26: when a store is connected, the result of a completed run is
\* persisted, and under the session whose turns were extracted, whatever
\* the current session id is.
C26_Original ==
  \A r \in RunIds :
    /\ run[r].pc = "persist" => Str(run[r].target.sid.s) = Prop(run[r].session, "_id")
    /\ (run[r].pc = "done" /\ db) => run[r].status \in {"saved", "saveFailed"}


\* C27: no step of a turn save changes the subject, the title or the
\* creation time of a session the store already holds.
C27_Original ==
  [][\A d \in SessionDocs :
       \E e \in fsDocs' :
         /\ e.col = d.col /\ e.id = d.id
         /\ \A k \in {"subject", "title", "createdAt"} \cap DOMAIN d.fields :
              k \in DOMAIN e.fields /\ e.fields[k] = d.fields[k]]_vars


\* C28: when every turn save has ended, and none has failed, the turn count
\* of each session is the number of turn documents stored under it.
C28_Original ==
  (\A p \in SaveIds : save[p].pc \in {"idle", "done"} /\ ~save[p].failed)
    => \A d \in SessionDocs :
         "turnCount" \in DOMAIN d.fields
           => IntOf(convertFromFirestoreValue(d.fields.turnCount))
                = Cardinality({t \in TurnDocs : t.col = TurnsCol(d.id)})


\* C29: a turn save issues its session update only when its turn write has
\* succeeded, the turn document being stored by then; when the turn write
\* fails the save ends and the sessions of the store stay as they are; and
\* a save changes a session only by creating it or by its session update.
C29_TurnFirst ==
  [][\A p \in SaveIds :
       /\ (save'[p].pc = "sess" /\ save[p].pc # "sess")
            => /\ save[p].pc = "turn"
               /\ [col |-> save[p].req.col, id |-> save[p].req.id,
                   fields |-> save[p].req.fields] \in fsDocs'
       /\ (save[p].pc = "turn" /\ save'[p].failed)
            => /\ save'[p].pc = "done"
               /\ {d \in fsDocs' : d.col = <<"shn-sessions">>} = SessionDocs
       /\ (save'[p] # save[p] /\ {d \in fsDocs' : d.col = <<"shn-sessions">>} # SessionDocs)
            => save[p].pc \in {"post", "sess"}]_vars
C29_Witness ==
  /\ save["s1"].failed /\ save["s1"].sent = <<"list", "post", "turn">>
  /\ \E d \in SessionDocs :
       /\ d.fields.turnCount = [integerValue |-> <<"0">>]
       /\ "lastTurnTitle" \notin DOMAIN d.fields


\* C30: when the turns of a raw export arrive, the export holds every turn
\* the store holds for the exported session.
C30_Original ==
  [][(hPc = "fetch" /\ hPc' = "out")
       => \A t \in TurnDocs :
            t.col = TurnsCol(Prop(hIn, "_id").s)
              => \E k \in 1..Len(hOut') : hOut'[k] = convertFromFirestoreDoc(t)]_vars

====
